---- MODULE Spec2Model ----
(***************************************************************************)
(* A model of the core of the gel-rust client library:                     *)
(*   - gel-stream: Target / TargetName / Connector (transport),            *)
(*   - gel-protocol: descriptor checks and raw scalar codecs,              *)
(*   - gel-derive: the Queryable implementation derived for enums.         *)
(* Each subsystem has its own specification over the shared variables;     *)
(* the variables of the other subsystems stay at their idle values.        *)
(***************************************************************************)
EXTENDS Integers, Sequences, FiniteSets, TLC

VARIABLES
    \* ---- transport (gel-stream) ----
    target,      \* the Target being built and mutated
    ret,         \* what the last Target operation returned
    connector,   \* Option<Connector>: <<>> or <<[target, ignore_missing_close_notify, keepalive]>>
    stream,      \* Option<UpgradableStream>: the stream of the last connect()
    connRes,     \* what the last connect() / secure_upgrade() returned
    \* ---- descriptor checks (gel-protocol, gel-derive) ----
    ctx,         \* DescriptorContext: [proto, descriptors]
    call,        \* the check_descriptor / check_scalar call in progress
    cur,         \* the position check_scalar is looking at
    result,      \* the result of the call
    \* ---- derived enum decode (gel-derive) ----
    enumdef,     \* the variants of the enum the derive was applied to
    ebuf,        \* the bytes handed to decode
    eres,        \* the result of decode
    \* ---- raw scalar codecs (gel-protocol) ----
    cbuf,        \* the buffer: received from the wire or written by encode
    cval,        \* the value that was encoded
    cres,        \* the result of decode
    \* ---- message framing (gel-db-protocol) ----
    wire,        \* [msgs, bytes]: the messages written and the byte stream read
    fpos,        \* how many bytes of the stream have been consumed
    fcount,      \* how many messages have been read whole
    fres,        \* the result of the last read
    \* ---- protocol state machine ----
    conn,        \* the connection: [state, txn, sent, delivered, discarded, received]
    inbox,       \* the server's messages on their way to the client, in order
    \* ---- client configuration ----
    config,      \* the Config
    tlsout,      \* what the last to_tls call returned, if any
    \* ---- TLS connections ----
    tls,         \* one client connecting to one server, and how it went
    \* ---- connection options (gel-dsn) ----
    options,     \* the ConnectionOptions handed in
    optres,      \* the result of the conversion into Params, if any
    \* ---- configuration outputs (gel-dsn) ----
    cfgout,      \* what the last dsn_url / as_credentials / connect call produced
    \* ---- vector arguments (gel-protocol) ----
    vector,      \* the Vec<f32> handed to encode
    venc,        \* what encode wrote, if it ran
    \* ---- acceptor (gel-stream) ----
    accepted,    \* the AcceptedStream that bind returned
    listener,    \* the listener under it
    yielded,     \* the items poll_next has returned, in order
    taken,       \* the sockets taken from the listener, in order
    polled       \* what the last poll_next returned

transportVars == <<target, ret, connector, stream, connRes>>
descVars == <<ctx, call, cur, result>>
enumVars == <<enumdef, ebuf, eres>>
codecVars == <<cbuf, cval, cres>>
frameVars == <<wire, fpos, fcount, fres>>
connVars == <<conn, inbox>>
cfgVars == <<config, tlsout>>
tlsVars == <<tls>>
optsVars == <<options, optres>>
dsnVars == <<cfgout>>
vecVars == <<vector, venc>>
accVars == <<accepted, listener, yielded, taken, polled>>
vars == <<target, ret, connector, stream, connRes, ctx, call, cur, result,
          enumdef, ebuf, eres, cbuf, cval, cres, wire, fpos, fcount, fres,
          conn, inbox, config, tlsout, tls,
          options, optres,
          cfgout,
          vector, venc,
          accepted, listener, yielded, taken, polled>>
\* What a step of one subsystem leaves alone.
notTransport == <<descVars, enumVars, codecVars, frameVars, connVars, cfgVars, tlsVars, optsVars, dsnVars, vecVars, accVars>>
notDesc == <<transportVars, enumVars, codecVars, frameVars, connVars, cfgVars, tlsVars, optsVars, dsnVars, vecVars, accVars>>
notEnum == <<transportVars, codecVars, frameVars, connVars, cfgVars, tlsVars, optsVars, dsnVars, vecVars, accVars>>
notCodec == <<transportVars, descVars, enumVars, frameVars, connVars, cfgVars, tlsVars, optsVars, dsnVars, vecVars, accVars>>
notFrame == <<transportVars, descVars, enumVars, codecVars, connVars, cfgVars, tlsVars, optsVars, dsnVars, vecVars, accVars>>
notConn == <<transportVars, descVars, enumVars, codecVars, frameVars, cfgVars, tlsVars, optsVars, dsnVars, vecVars, accVars>>
notCfg == <<transportVars, descVars, enumVars, codecVars, frameVars, connVars, tlsVars, optsVars, dsnVars, vecVars, accVars>>
notTls == <<transportVars, descVars, enumVars, codecVars, frameVars, connVars, cfgVars, optsVars, dsnVars, vecVars, accVars>>
notOpts == <<transportVars, descVars, enumVars, codecVars, frameVars, connVars, cfgVars, tlsVars, dsnVars, vecVars, accVars>>
notDsn == <<transportVars, descVars, enumVars, codecVars, frameVars, connVars, tlsVars, optsVars, vecVars, accVars>>
notVec == <<transportVars, descVars, enumVars, codecVars, frameVars, connVars, cfgVars, tlsVars, optsVars, dsnVars, accVars>>
notAcc == <<transportVars, descVars, enumVars, codecVars, frameVars, connVars, cfgVars, tlsVars, optsVars, dsnVars, vecVars>>

\* Option<T>: None is the empty sequence, Some(v) the one-element sequence.
None == <<>>
Some(v) == <<v>>
is_some(o) == Len(o) = 1
is_none(o) == Len(o) = 0
unwrap(o) == o[1]

(***************************************************************************)
(*                              TRANSPORT                                  *)
(***************************************************************************)

\* Bounds of the transport model.
MaxPort == 1
NumParams == 2
MaxCalls == 2

Ports == 0..MaxPort
TlsParams == 1..NumParams

\* Host strings handed to new_tcp; those that parse as an IpAddr.
Hosts == {"localhost", "127.0.0.1"}
IpLiterals == {"127.0.0.1", "0.0.0.0"}
UnixPaths == {"/tmp/test.sock"}
AbstractNames == {"test"}

\* MaybeResolvedTarget, as one record shape:
\*   Resolved(SocketAddr(ip, port))        tag "SocketAddr",   name = ip
\*   Resolved(UnixSocketAddr(pathname))    tag "UnixPath",     name = path
\*   Resolved(UnixSocketAddr(abstract))    tag "UnixAbstract", name = abstract name
\*   Unresolved(host, port, None)          tag "Unresolved",   name = host
\* The port field of a Unix address carries nothing (always 0).
SocketAddr(ip, p) == [tag |-> "SocketAddr", name |-> ip, port |-> p]
UnixSocketPath(pth) == [tag |-> "UnixPath", name |-> pth, port |-> 0]
UnixSocketAbstract(n) == [tag |-> "UnixAbstract", name |-> n, port |-> 0]
Unresolved(h, p) == [tag |-> "Unresolved", name |-> h, port |-> p]

is_unix(m) == m.tag \in {"UnixPath", "UnixAbstract"}

\* impl TcpResolve for (S, u16)
TcpResolve(h, p) ==
    IF h \in IpLiterals THEN SocketAddr(h, p) ELSE Unresolved(h, p)

\* ResolvedTarget values handed to new_resolved*.
ResolvedTargets ==
    {SocketAddr(ip, p) : ip \in (Hosts \cap IpLiterals), p \in Ports}
      \cup {UnixSocketPath(pth) : pth \in UnixPaths}
      \cup {UnixSocketAbstract(n) : n \in AbstractNames}

TargetName_new_unix_path(pth) == UnixSocketPath(pth)
TargetName_new_unix_domain(n) == UnixSocketAbstract(n)
TargetName_new_tcp(h, p) == TcpResolve(h, p)

\* The TargetName values a program can build (their inner MaybeResolvedTarget).
TargetNames ==
    {TargetName_new_tcp(h, p) : h \in Hosts, p \in Ports}
      \cup {TargetName_new_unix_path(pth) : pth \in UnixPaths}
      \cup {TargetName_new_unix_domain(n) : n \in AbstractNames}

\* MaybeResolvedTarget::path: as_pathname() is Some only for a pathname address.
path(m) == IF m.tag = "UnixPath" THEN Some(m.name) ELSE None

\* MaybeResolvedTarget::host
host(m) == IF m.tag \in {"SocketAddr", "Unresolved"} THEN Some(m.name) ELSE None

\* MaybeResolvedTarget::port
port(m) == IF m.tag \in {"SocketAddr", "Unresolved"} THEN Some(m.port) ELSE None

\* MaybeResolvedTarget::name: the ServerName, None for a Unix address.
name(m) == IF m.tag \in {"SocketAddr", "Unresolved"} THEN Some(m.name) ELSE None

\* MaybeResolvedTarget::set_port: the new endpoint and the old port.
set_port(m, new_port) ==
    IF m.tag \in {"SocketAddr", "Unresolved"}
    THEN [m |-> [m EXCEPT !.port = new_port], old |-> Some(m.port)]
    ELSE [m |-> m, old |-> None]

\* TargetInner: NoTls(ep) | Tls(ep, params) | StartTls(ep, params).
NoTls(ep) == [mode |-> "NoTls", ep |-> ep, params |-> None]
Tls(ep, p) == [mode |-> "Tls", ep |-> ep, params |-> Some(p)]
StartTls(ep, p) == [mode |-> "StartTls", ep |-> ep, params |-> Some(p)]

Target_new(n) == NoTls(n)
Target_new_tls(n, p) == Tls(n, p)
Target_new_starttls(n, p) == StartTls(n, p)
Target_new_resolved(rt) == NoTls(rt)
Target_new_resolved_tls(rt, p) == Tls(rt, p)
Target_new_resolved_starttls(rt, p) == StartTls(rt, p)
Target_new_unix_path(pth) == NoTls(UnixSocketPath(pth))
Target_new_unix_domain(n) == NoTls(UnixSocketAbstract(n))
Target_new_tcp(h, p) == NoTls(TcpResolve(h, p))
Target_new_tcp_tls(h, p, params) == Tls(TcpResolve(h, p), params)
Target_new_tcp_starttls(h, p, params) == StartTls(TcpResolve(h, p), params)

maybe_resolved(t) == t.ep
\* Mutant of is_starttls: matches the Tls variant instead of StartTls.
is_starttls_tls(t) == t.mode = "Tls"
is_starttls(t) == t.mode = "StartTls"
maybe_ssl(t) == IF t.mode = "NoTls" THEN None ELSE t.params
is_tcp(t) == is_some(port(maybe_resolved(t)))

\* The temporary value try_set_tls / try_remove_tls leave in self.inner
\* while they match on the old one.
no_target == NoTls(SocketAddr("0.0.0.0", 0))

\* What a Target operation returns:
\*   applied  the outer Option is Some (try_set_tls), or the operation has no outer Option
\*   old      the previous TLS parameters (try_set_tls, try_remove_tls)
\*   oldport  the previous port (try_set_port)
Ret(op, applied, old, oldport) ==
    [op |-> op, applied |-> applied, old |-> old, oldport |-> oldport]

\* Target::try_set_tls: the target afterwards and the returned value
\* (applied = FALSE is None, otherwise Some(old)).
try_set_tls(t, params) ==
    IF is_some(path(maybe_resolved(t)))
    THEN [t |-> t, applied |-> FALSE, old |-> None]
    ELSE LET replaced == t          \* std::mem::replace(&mut self.inner, no_target)
             inner0 == no_target
         IN  CASE replaced.mode = "NoTls" ->
                    [t |-> Tls(replaced.ep, params), applied |-> TRUE, old |-> None]
               [] replaced.mode = "Tls" ->
                    [t |-> Tls(replaced.ep, params), applied |-> TRUE,
                     old |-> replaced.params]
               [] replaced.mode = "StartTls" ->
                    [t |-> StartTls(replaced.ep, params), applied |-> TRUE,
                     old |-> replaced.params]
               [] OTHER -> [t |-> inner0, applied |-> TRUE, old |-> None]

\* Mutant of try_remove_tls: the temporary value stays in self.inner.
try_remove_tls_temporary(t) == [t |-> no_target, old |-> t.params]

\* Target::try_remove_tls: the target afterwards and the returned parameters.
try_remove_tls(t) ==
    LET replaced == t
        inner0 == no_target
    IN  CASE replaced.mode = "NoTls" -> [t |-> NoTls(replaced.ep), old |-> None]
          [] replaced.mode = "Tls" -> [t |-> NoTls(replaced.ep), old |-> replaced.params]
          [] replaced.mode = "StartTls" ->
                [t |-> NoTls(replaced.ep), old |-> replaced.params]
          [] OTHER -> [t |-> inner0, old |-> None]

\* Target::try_set_port
try_set_port(t, new_port) ==
    LET r == set_port(maybe_resolved(t), new_port)
    IN  [t |-> [t EXCEPT !.ep = r.m], old |-> r.old]

NoRet == Ret("new", TRUE, None, None)

\* ---- UpgradableStream and Connector ----

\* UpgradableStream::new_client(base, ssl): a plain stream that may hold the
\* TLS parameters for a later upgrade.  upgrades counts the handshakes that
\* completed on this stream; explicit counts the caller's own secure_upgrade
\* calls (both are history fields).
new_client(keepalive, ssl) ==
    [ssl |-> ssl, state |-> "Base", ignore_cn |-> FALSE, keepalive |-> keepalive,
     upgrades |-> 0, explicit |-> 0]

\* UpgradableStream::ignore_missing_close_notify
ignore_missing_close_notify(stm) == [stm EXCEPT !.ignore_cn = TRUE]

\* UpgradableStream::secure_upgrade: the stream afterwards and the result.
\* A stream that is upgraded, or whose upgrade was started and failed, answers
\* SslAlreadyUpgraded ("already upgraded or in the process of upgrading").
secure_upgrade(stm, hsOk) ==
    CASE stm.state # "Base" -> [stm |-> stm, res |-> "SslAlreadyUpgraded"]
      [] stm.state = "Base" /\ is_none(stm.ssl) ->
            [stm |-> [stm EXCEPT !.state = "Upgrading"],
             res |-> "SslUnsupportedByClient"]
      [] stm.state = "Base" /\ is_some(stm.ssl) /\ hsOk ->
            [stm |-> [stm EXCEPT !.state = "Upgraded", !.upgrades = @ + 1],
             res |-> "Ok"]
      [] OTHER ->
            [stm |-> [stm EXCEPT !.state = "Upgrading"], res |-> "HandshakeFailed"]

\* Connector::new_explicit
Connector_new(t) ==
    [target |-> t, ignore_missing_close_notify |-> FALSE, keepalive |-> FALSE]

\* Mutant of connect: the handshake is run for a StartTls target as well.
connect_always_upgrade(c, sockOk, kaOk, initOk, hsOk) ==
    LET t == c.target
        ka == c.keepalive /\ is_tcp(t)
        ssl == maybe_ssl(t)
        stm0 == new_client(ka, ssl)
        stm1 == IF c.ignore_missing_close_notify
                THEN ignore_missing_close_notify(stm0) ELSE stm0
        up == secure_upgrade(stm1, hsOk)
    IN  CASE ~sockOk -> [res |-> "Io", stream |-> None]
          [] sockOk /\ ka /\ ~kaOk -> [res |-> "Io", stream |-> None]
          [] OTHER ->
                IF is_some(ssl)
                THEN IF ~initOk THEN [res |-> "SslInit", stream |-> None]
                     ELSE IF up.res = "Ok"
                          THEN [res |-> "Ok", stream |-> Some(up.stm)]
                          ELSE [res |-> up.res, stream |-> None]
                ELSE [res |-> "Ok", stream |-> Some(new_client(ka, None))]

\* Connector::connect.  sockOk: resolving and opening the socket succeeds;
\* kaOk: set_keepalive succeeds; initOk: D::init_client succeeds; hsOk: the TLS
\* handshake succeeds.  Returns the result and, when Ok, the stream.
connect(c, sockOk, kaOk, initOk, hsOk) ==
    LET t == c.target
        ka == c.keepalive /\ is_tcp(t)
        ssl == maybe_ssl(t)
        stm0 == new_client(ka, ssl)
        stm1 == IF c.ignore_missing_close_notify
                THEN ignore_missing_close_notify(stm0) ELSE stm0
        up == secure_upgrade(stm1, hsOk)
    IN  CASE ~sockOk -> [res |-> "Io", stream |-> None]
          [] sockOk /\ ka /\ ~kaOk -> [res |-> "Io", stream |-> None]
          [] OTHER ->
                IF is_some(ssl)
                THEN IF ~initOk THEN [res |-> "SslInit", stream |-> None]
                     ELSE IF ~is_starttls(t)
                          THEN IF up.res = "Ok"
                               THEN [res |-> "Ok", stream |-> Some(up.stm)]
                               ELSE [res |-> up.res, stream |-> None]
                          ELSE [res |-> "Ok", stream |-> Some(stm1)]
                ELSE [res |-> "Ok", stream |-> Some(new_client(ka, None))]

NoRes == [op |-> "none", res |-> "none"]

TransportIdle ==
    /\ target = Target_new_tcp("localhost", 0)
    /\ ret = NoRet
    /\ connector = None
    /\ stream = None
    /\ connRes = NoRes

TransportInit ==
    /\ \E h \in Hosts, p \in Ports : target = Target_new_tcp(h, p)
    /\ ret = NoRet
    /\ connector = None
    /\ stream = None
    /\ connRes = NoRes

\* A constructor replaces the target being built (no Connector owns it yet).
Construct(t) ==
    /\ connector = None
    /\ target' = t
    /\ ret' = NoRet
    /\ UNCHANGED <<connector, stream, connRes>>

New ==
    /\ \E n \in TargetNames : Construct(Target_new(n))
    /\ UNCHANGED notTransport
NewTls ==
    /\ \E n \in TargetNames, p \in TlsParams : Construct(Target_new_tls(n, p))
    /\ UNCHANGED notTransport
NewStartTls ==
    /\ \E n \in TargetNames, p \in TlsParams : Construct(Target_new_starttls(n, p))
    /\ UNCHANGED notTransport
NewResolved ==
    /\ \E rt \in ResolvedTargets : Construct(Target_new_resolved(rt))
    /\ UNCHANGED notTransport
NewResolvedTls ==
    /\ \E rt \in ResolvedTargets, p \in TlsParams :
          Construct(Target_new_resolved_tls(rt, p))
    /\ UNCHANGED notTransport
NewResolvedStartTls ==
    /\ \E rt \in ResolvedTargets, p \in TlsParams :
          Construct(Target_new_resolved_starttls(rt, p))
    /\ UNCHANGED notTransport
NewUnixPath ==
    /\ \E pth \in UnixPaths : Construct(Target_new_unix_path(pth))
    /\ UNCHANGED notTransport
NewUnixDomain ==
    /\ \E n \in AbstractNames : Construct(Target_new_unix_domain(n))
    /\ UNCHANGED notTransport
NewTcp ==
    /\ \E h \in Hosts, p \in Ports : Construct(Target_new_tcp(h, p))
    /\ UNCHANGED notTransport
NewTcpTls ==
    /\ \E h \in Hosts, p \in Ports, params \in TlsParams :
          Construct(Target_new_tcp_tls(h, p, params))
    /\ UNCHANGED notTransport
NewTcpStartTls ==
    /\ \E h \in Hosts, p \in Ports, params \in TlsParams :
          Construct(Target_new_tcp_starttls(h, p, params))
    /\ UNCHANGED notTransport

TrySetTls ==
    \E params \in TlsParams :
        LET r == try_set_tls(target, params)
        IN  /\ connector = None
            /\ target' = r.t
            /\ ret' = Ret("try_set_tls", r.applied, r.old, None)
            /\ UNCHANGED <<connector, stream, connRes, notTransport>>

TryRemoveTls ==
    LET r == try_remove_tls(target)
    IN  /\ connector = None
        /\ target' = r.t
        /\ ret' = Ret("try_remove_tls", TRUE, r.old, None)
        /\ UNCHANGED <<connector, stream, connRes, notTransport>>

TrySetPort ==
    \E p \in Ports :
        LET r == try_set_port(target, p)
        IN  /\ connector = None
            /\ target' = r.t
            /\ ret' = Ret("try_set_port", TRUE, None, r.old)
            /\ UNCHANGED <<connector, stream, connRes, notTransport>>

\* Connector::new(target): the target moves into the connector.
ConnectorNew ==
    /\ connector = None
    /\ connector' = Some(Connector_new(target))
    /\ ret' = NoRet
    /\ UNCHANGED <<target, stream, connRes, notTransport>>

\* Connector::set_keepalive (feature "keepalive")
SetKeepalive ==
    \E ka \in BOOLEAN :
        /\ is_some(connector)
        /\ connector' = Some([unwrap(connector) EXCEPT !.keepalive = ka])
        /\ UNCHANGED <<target, ret, stream, connRes, notTransport>>

\* Connector::ignore_missing_tls_close_notify
IgnoreMissingTlsCloseNotify ==
    /\ is_some(connector)
    /\ connector' = Some([unwrap(connector) EXCEPT !.ignore_missing_close_notify = TRUE])
    /\ UNCHANGED <<target, ret, stream, connRes, notTransport>>

\* connector.connect().await: the previous stream, if any, is dropped.
Connect ==
    \E sockOk \in BOOLEAN, kaOk \in BOOLEAN, initOk \in BOOLEAN, hsOk \in BOOLEAN :
        LET r == connect(unwrap(connector), sockOk, kaOk, initOk, hsOk)
        IN  /\ is_some(connector)
            /\ stream' = r.stream
            /\ connRes' = [op |-> "connect", res |-> r.res]
            /\ UNCHANGED <<target, ret, connector, notTransport>>

\* The caller's own stream.secure_upgrade().await on the connected stream.
SecureUpgrade ==
    \E hsOk \in BOOLEAN :
        /\ is_some(stream)
        /\ unwrap(stream).explicit < MaxCalls
        /\ LET r == secure_upgrade(unwrap(stream), hsOk)
           IN  /\ stream' = Some([r.stm EXCEPT !.explicit = @ + 1])
               /\ connRes' = [op |-> "secure_upgrade", res |-> r.res]
        /\ UNCHANGED <<target, ret, connector, notTransport>>

TransportNext ==
    \/ New \/ NewTls \/ NewStartTls
    \/ NewResolved \/ NewResolvedTls \/ NewResolvedStartTls
    \/ NewUnixPath \/ NewUnixDomain
    \/ NewTcp \/ NewTcpTls \/ NewTcpStartTls
    \/ TrySetTls \/ TryRemoveTls \/ TrySetPort
    \/ ConnectorNew \/ SetKeepalive \/ IgnoreMissingTlsCloseNotify
    \/ Connect \/ SecureUpgrade

(***************************************************************************)
(*                          DESCRIPTOR CHECKS                              *)
(***************************************************************************)

\* Bounds of the descriptor model: descriptors per block.
BlockLen == 2

\* Byte strings are sequences of bytes; the ASCII letter with a given offset
\* from 'A' (0 is "A", 1 is "B", ...), and lower-case "a".
Letter(i) == <<65 + i>>
LowerA == <<97>>

\* Type ids (UUIDs) and the typenames the bindings pass to check_scalar.
TypeIds == {"std::str", "std::int64"}

\* Descriptor, as one record shape (fields a variant does not have are idle):
\*   BaseScalar{id}  Scalar{id, base_type_pos}  Enumeration{members}  Tuple
Descriptor(kind, id, base, members) ==
    [kind |-> kind, id |-> id, base_type_pos |-> base, members |-> members]
BaseScalar(id) == Descriptor("BaseScalar", id, None, <<>>)
Scalar(id, base) == Descriptor("Scalar", id, base, <<>>)
Enumeration(members) == Descriptor("Enumeration", "", None, members)
Tuple == Descriptor("Tuple", "", None, <<>>)
NoDesc == Descriptor("none", "", None, <<>>)

\* Member lists a server may declare for an enumeration.
MemberLists == {<<Letter(0)>>, <<Letter(0), Letter(2)>>}

\* ProtocolVersion::is_2 (major version 2 or later)
is_2(proto) == proto >= 2
ProtoMajors == {1, 2}

\* DescriptorContext::get(type_pos): the descriptor at a position (0-based),
\* None when the block has no such position.
get(c, type_pos) ==
    IF type_pos >= 0 /\ type_pos < Len(c.descriptors)
    THEN Some(c.descriptors[type_pos + 1]) ELSE None

\* Results: Ok(()), Err(wrong_type(desc, expected)), Err(invalid position).
Ok == [kind |-> "Ok", expected |-> "", actual |-> NoDesc]
\* DescriptorContext::wrong_type(desc, expected)
wrong_type(desc, expected) ==
    [kind |-> "Mismatch", expected |-> expected, actual |-> desc]
InvalidPos == [kind |-> "InvalidPos", expected |-> "", actual |-> NoDesc]
NoResult == [kind |-> "none", expected |-> "", actual |-> NoDesc]
\* check_scalar calls itself on another position.
Recurse(pos) == [kind |-> "Recurse", pos |-> pos, res |-> NoResult]
Return(res) == [kind |-> "Return", pos |-> 0, res |-> res]

\* Mutant of check_scalar: the id of a Scalar is compared before its base
\* type is followed.
check_scalar_id_first(c, type_pos, type_id, nm) ==
    LET d == get(c, type_pos)
        desc == unwrap(d)
    IN  IF is_none(d) THEN Return(InvalidPos)
        ELSE IF desc.kind = "Scalar" /\ is_2(c.proto) /\ desc.id = type_id
        THEN Return(Ok)
        ELSE IF desc.kind = "Scalar" /\ is_some(desc.base_type_pos)
        THEN Recurse(unwrap(desc.base_type_pos))
        ELSE IF desc.kind = "BaseScalar" /\ desc.id = type_id
        THEN Return(Ok)
        ELSE Return(wrong_type(desc, nm))

\* Mutant of check_scalar: a Scalar with a base type is looked up again
\* instead of its base.
check_scalar_again(c, type_pos, type_id, nm) ==
    LET d == get(c, type_pos)
        desc == unwrap(d)
    IN  IF is_none(d) THEN Return(InvalidPos)
        ELSE IF desc.kind = "Scalar" /\ is_some(desc.base_type_pos)
        THEN Recurse(type_pos)
        ELSE IF desc.kind = "Scalar" /\ is_2(c.proto) /\ desc.id = type_id
        THEN Return(Ok)
        ELSE IF desc.kind = "BaseScalar" /\ desc.id = type_id
        THEN Return(Ok)
        ELSE Return(wrong_type(desc, nm))

\* One activation of check_scalar(ctx, type_pos, type_id, name): either the
\* recursive call it makes or the result it returns.
check_scalar(c, type_pos, type_id, nm) ==
    LET d == get(c, type_pos)
        desc == unwrap(d)
    IN  IF is_none(d) THEN Return(InvalidPos)
        ELSE IF desc.kind = "Scalar" /\ is_some(desc.base_type_pos)
        THEN Recurse(unwrap(desc.base_type_pos))
        ELSE IF desc.kind = "Scalar" /\ is_2(c.proto) /\ desc.id = type_id
        THEN Return(Ok)
        ELSE IF desc.kind = "BaseScalar" /\ desc.id = type_id
        THEN Return(Ok)
        ELSE Return(wrong_type(desc, nm))

\* The bindings whose check_descriptor is modelled, with the uuid and
\* typename each hands to check_scalar.
Bindings == {"String", "&str", "i64", "EnumValue", "DeriveEnum"}
uuid(b) == IF b = "i64" THEN "std::int64" ELSE "std::str"
typename(b) == uuid(b)

\* <String as ScalarArg>::check_descriptor, <i64 as ScalarArg>::check_descriptor
check_descriptor_scalar(c, b, pos) == Recurse(pos)

\* <&str as ScalarArg>::check_descriptor
check_descriptor_str(c, pos) ==
    LET d == get(c, pos)
    IN  IF is_none(d) THEN Return(InvalidPos)
        ELSE IF unwrap(d).kind = "Enumeration" THEN Return(Ok)
        ELSE Recurse(pos)

\* <EnumValue as ScalarArg>::check_descriptor
check_descriptor_EnumValue(c, pos) ==
    LET d == get(c, pos)
    IN  IF is_none(d) THEN Return(InvalidPos)
        ELSE Return(wrong_type(unwrap(d), "enum"))

\* check_descriptor of the Queryable impl that derive_enum generates
check_descriptor_derive(c, type_pos) ==
    LET d == get(c, type_pos)
    IN  IF is_none(d) THEN Return(InvalidPos)
        ELSE IF unwrap(d).kind = "Enumeration" THEN Return(Ok)
        ELSE Return(wrong_type(unwrap(d), "str"))

check_descriptor(c, b, pos) ==
    CASE b \in {"String", "i64"} -> check_descriptor_scalar(c, b, pos)
      [] b = "&str" -> check_descriptor_str(c, pos)
      [] b = "EnumValue" -> check_descriptor_EnumValue(c, pos)
      [] OTHER -> check_descriptor_derive(c, pos)

\* The call in progress.  resolved counts the descriptors check_scalar has
\* looked up, saturating one past the block length; path is the positions it
\* has been called on, in order (history, kept while it grows with resolved).
NoCall == [active |-> FALSE, binding |-> "", pos |-> 0, resolved |-> 0, path |-> <<>>]

\* The descriptors a block is drawn from.  A Scalar with a base type keeps one
\* id: check_scalar never looks at it.
DescChoices(n, lists) ==
    {BaseScalar(id) : id \in TypeIds}
      \cup {Scalar(id, None) : id \in TypeIds}
      \cup {Scalar("std::str", Some(b)) : b \in 0..(n - 1)}
      \cup {Enumeration(m) : m \in lists}
      \cup {Tuple}

Blocks(n, lists) == [1..n -> DescChoices(n, lists)]

DescIdle ==
    /\ ctx = [proto |-> 1, descriptors |-> <<>>]
    /\ call = NoCall
    /\ cur = 0
    /\ result = NoResult

DescInit ==
    /\ \E pr \in ProtoMajors, ds \in Blocks(BlockLen, {<<Letter(0)>>}) :
          ctx = [proto |-> pr, descriptors |-> ds]
    /\ call = NoCall
    /\ cur = 0
    /\ result = NoResult

\* What a call or a recursive call leaves in the state.
Proceed(c0, step) ==
    IF step.kind = "Recurse"
    THEN /\ call' = [c0 EXCEPT !.active = TRUE]
         /\ cur' = step.pos
         /\ result' = NoResult
    ELSE /\ call' = [c0 EXCEPT !.active = FALSE]
         /\ cur' = cur
         /\ result' = step.res

\* B::check_descriptor(ctx, pos) is called.
CheckDescriptorCall(b, pos) ==
    /\ ~call.active
    /\ Proceed([active |-> TRUE, binding |-> b, pos |-> pos, resolved |-> 0,
                path |-> <<>>],
               check_descriptor(ctx, b, pos))
    /\ UNCHANGED ctx

CheckDescriptor ==
    /\ \E b \in Bindings, pos \in 0..BlockLen : CheckDescriptorCall(b, pos)
    /\ UNCHANGED notDesc

\* The pending activation of check_scalar runs.
CheckScalar ==
    /\ call.active
    /\ Proceed([call EXCEPT
                   !.resolved = IF @ <= BlockLen THEN @ + 1 ELSE @,
                   !.path = IF Len(@) <= BlockLen THEN Append(@, cur) ELSE @],
               check_scalar(ctx, cur, uuid(call.binding), typename(call.binding)))
    /\ UNCHANGED <<ctx, notDesc>>

DescNext == CheckDescriptor \/ CheckScalar

(***************************************************************************)
(*                     ENUM DERIVE (gel-derive)                            *)
(***************************************************************************)

\* Bound: variants per enum.
MaxVariants == 2

\* What a #[gel(rename = "...")] attribute may hold.
Renames == {Letter(0), Letter(1), LowerA, Letter(0) \o Letter(1)}

\* The enums the derive is applied to: unit variants (a variant with fields
\* makes derive_enum fail and no impl exists), identifiers distinct as Rust
\* requires (the i-th variant is named by the i-th letter), each with an
\* optional rename attribute.
Variant(ident, rename) == [ident |-> ident, rename |-> rename]
EnumDefs ==
    UNION {[1..n -> {None} \cup {Some(r) : r \in Renames}] : n \in 1..MaxVariants}
Variants(def) == [i \in 1..Len(def) |-> Variant(Letter(i - 1), def[i])]

\* The byte strings handed to decode.
EnumBufs ==
    {<<>>, LowerA, Letter(0) \o Letter(1), Letter(0) \o <<0>>}
      \cup {Letter(i) : i \in 0..MaxVariants}

\* Mutant of name_bstr: the rename attribute is ignored.
name_bstr_ident(v) == v.ident

\* The byte-string literal of a variant's match arm: the rename attribute if
\* present, otherwise the identifier.
name_bstr(v) == IF is_some(v.rename) THEN unwrap(v.rename) ELSE v.ident

\* The match arms, in declaration order.
branches(variants) ==
    [i \in 1..Len(variants) |-> [pat |-> name_bstr(variants[i]), variant |-> i]]

ExtraEnumValue == [kind |-> "ExtraEnumValue", variant |-> 0]
OkVariant(i) == [kind |-> "Ok", variant |-> i]
NoDecode == [kind |-> "none", variant |-> 0]

\* decode of the derived impl: `match buf { arms..., _ => Err(ExtraEnumValue) }`;
\* the first arm whose pattern equals buf is taken.
decode_derive(variants, buf) ==
    LET arms == branches(variants)
        hits == {i \in 1..Len(arms) : arms[i].pat = buf}
    IN  IF hits = {} THEN ExtraEnumValue
        ELSE LET first == CHOOSE i \in hits : \A j \in hits : i <= j
             IN  OkVariant(arms[first].variant)

EnumIdle ==
    /\ enumdef = <<>>
    /\ ebuf = <<>>
    /\ eres = NoDecode

\* The enum is fixed at compile time; the server's block holds one descriptor.
EnumInit ==
    /\ \E def \in EnumDefs : enumdef = Variants(def)
    /\ ebuf = <<>>
    /\ eres = NoDecode
    /\ \E d \in {Enumeration(<<Letter(0)>>), Enumeration(<<Letter(0), Letter(MaxVariants)>>),
                 BaseScalar("std::str"), Scalar("std::str", None), Tuple} :
          ctx = [proto |-> 2, descriptors |-> <<d>>]
    /\ call = NoCall
    /\ cur = 0
    /\ result = NoResult

\* T::decode(decoder, &(), buf) for the derived enum T.
DecodeEnum ==
    \E buf \in EnumBufs :
        /\ ebuf' = buf
        /\ eres' = decode_derive(enumdef, buf)
        /\ UNCHANGED <<enumdef, descVars, notEnum>>

\* T::check_descriptor(ctx, pos) for the derived enum T.
DeriveCheckDescriptor ==
    /\ \E pos \in 0..1 : CheckDescriptorCall("DeriveEnum", pos)
    /\ UNCHANGED <<enumVars, notEnum>>

EnumNext == DecodeEnum \/ DeriveCheckDescriptor

(***************************************************************************)
(*        RAW SCALAR CODECS (gel-protocol/src/serialization/decode)        *)
(*                                                                         *)
(* A buffer is a sequence of bytes.  An i16 and an i32 are integers; a     *)
(* 64-bit value (i64, the bits of an f64) is its two's-complement bit      *)
(* pattern as four 16-bit limbs, most significant first; a u32, an i32     *)
(* field of a duration and the bits of an f32 are two limbs.  A string is  *)
(* the sequence of its Unicode scalar values.                              *)
(***************************************************************************)

\* The longest buffer received from the wire.
MaxBufLen == 17
\* The longest string / byte string that is encoded.
MaxStrLen == 2

\* ---- the bytes crate: big-endian put_* / get_* ----
put_u8(b) == <<b>>
put_u16(l) == <<l \div 256, l % 256>>
get_u16(buf, i) == buf[i] * 256 + buf[i + 1]
put_i16(v) == put_u16(v % 65536)
get_i16(buf) ==
    LET u == get_u16(buf, 1) IN IF u >= 32768 THEN u - 65536 ELSE u
put_i32(v) == put_u16((v \div 65536) % 65536) \o put_u16(v % 65536)
get_i32(buf) ==
    LET hi == get_u16(buf, 1)
    IN  (IF hi >= 32768 THEN hi - 65536 ELSE hi) * 65536 + get_u16(buf, 3)
put_u32(v) == put_u16(v[1]) \o put_u16(v[2])
get_u32(buf, i) == <<get_u16(buf, i), get_u16(buf, i + 2)>>
put_i64(v) == put_u16(v[1]) \o put_u16(v[2]) \o put_u16(v[3]) \o put_u16(v[4])
get_i64(buf) ==
    <<get_u16(buf, 1), get_u16(buf, 3), get_u16(buf, 5), get_u16(buf, 7)>>
\* put_f32 / put_f64 write v.to_bits(), get_f32 / get_f64 read from_bits.
put_f32(bits) == put_u32(bits)
get_f32(buf) == get_u32(buf, 1)
put_f64(bits) == put_i64(bits)
get_f64(buf) == get_i64(buf)

\* ---- str: as_bytes and str::from_utf8 ----
\* char::encode_utf8
encode_utf8(cp) ==
    IF cp < 128 THEN <<cp>>
    ELSE IF cp < 2048 THEN <<192 + (cp \div 64), 128 + (cp % 64)>>
    ELSE IF cp < 65536
    THEN <<224 + (cp \div 4096), 128 + ((cp \div 64) % 64), 128 + (cp % 64)>>
    ELSE <<240 + (cp \div 262144), 128 + ((cp \div 4096) % 64),
           128 + ((cp \div 64) % 64), 128 + (cp % 64)>>

RECURSIVE as_bytes(_)
as_bytes(s) ==
    IF s = <<>> THEN <<>> ELSE encode_utf8(Head(s)) \o as_bytes(Tail(s))

\* The width of the UTF-8 sequence a first byte announces, 0 for a byte that
\* cannot start one.
utf8_char_width(b) ==
    IF b < 128 THEN 1
    ELSE IF b >= 194 /\ b <= 223 THEN 2
    ELSE IF b >= 224 /\ b <= 239 THEN 3
    ELSE IF b >= 240 /\ b <= 244 THEN 4
    ELSE 0

\* The range the second byte of a sequence must be in, given the first.
second_lo(b) == IF b = 224 THEN 160 ELSE IF b = 240 THEN 144 ELSE 128
second_hi(b) == IF b = 237 THEN 159 ELSE IF b = 244 THEN 143 ELSE 191

RECURSIVE from_utf8(_)
from_utf8(buf) ==
    IF buf = <<>> THEN Some(<<>>)
    ELSE
      LET b == buf[1]
          w == utf8_char_width(b)
      IN  IF w = 0 \/ Len(buf) < w THEN None
          ELSE IF w >= 2 /\ ~(buf[2] >= second_lo(b) /\ buf[2] <= second_hi(b))
          THEN None
          ELSE IF \E i \in 3..w : ~(buf[i] >= 128 /\ buf[i] <= 191) THEN None
          ELSE
            LET cp == IF w = 1 THEN b
                      ELSE IF w = 2 THEN (b - 192) * 64 + (buf[2] - 128)
                      ELSE IF w = 3
                      THEN (b - 224) * 4096 + (buf[2] - 128) * 64 + (buf[3] - 128)
                      ELSE (b - 240) * 262144 + (buf[2] - 128) * 4096
                             + (buf[3] - 128) * 64 + (buf[4] - 128)
                rest == from_utf8(SubSeq(buf, w + 1, Len(buf)))
            IN  IF rest = None THEN None ELSE Some(<<cp>> \o unwrap(rest))

\* ---- Result<T, DecodeError> ----
Decoded(v) == [kind |-> "Ok", val |-> v]
Fail(e) == [kind |-> e, val |-> <<>>]

\* Mutant of ensure_exact_size: a longer buffer is let through.
ensure_min_size(buf, expected_size) ==
    IF Len(buf) < expected_size THEN "Underflow" ELSE "Ok"

ensure_exact_size(buf, expected_size) ==
    IF Len(buf) # expected_size
    THEN IF Len(buf) < expected_size THEN "Underflow" ELSE "ExtraData"
    ELSE "Ok"

\* `ensure_exact_size(buf, n)?; body`
Sized(buf, n, body) ==
    IF ensure_exact_size(buf, n) # "Ok" THEN Fail(ensure_exact_size(buf, n))
    ELSE body

\* ---- RawCodec::decode ----
decode_str(buf) ==
    IF from_utf8(buf) = None THEN Fail("InvalidUtf8")
    ELSE Decoded(unwrap(from_utf8(buf)))
decode_String(buf) == decode_str(buf)
\* Mutant of decode_Json: the format byte is not looked at.
decode_Json_any_format(buf) ==
    IF ~(Len(buf) >= 1) THEN Fail("Underflow")
    ELSE IF from_utf8(Tail(buf)) = None THEN Fail("InvalidUtf8")
    ELSE Decoded(unwrap(from_utf8(Tail(buf))))

decode_Json(buf) ==
    IF ~(Len(buf) >= 1) THEN Fail("Underflow")
    ELSE IF ~(buf[1] = 1) THEN Fail("InvalidJsonFormat")
    ELSE IF from_utf8(Tail(buf)) = None THEN Fail("InvalidUtf8")
    ELSE Decoded(unwrap(from_utf8(Tail(buf))))
decode_Uuid(buf) == Sized(buf, 16, Decoded(buf))
decode_bool(buf) ==
    Sized(buf, 1, IF buf[1] = 0 THEN Decoded(FALSE)
                  ELSE IF buf[1] = 1 THEN Decoded(TRUE)
                  ELSE Fail("InvalidBool"))
decode_i16(buf) == Sized(buf, 2, Decoded(get_i16(buf)))
decode_i32(buf) == Sized(buf, 4, Decoded(get_i32(buf)))
decode_i64(buf) == Sized(buf, 8, Decoded(get_i64(buf)))
decode_ConfigMemory(buf) == Sized(buf, 8, Decoded(get_i64(buf)))
decode_f32(buf) == Sized(buf, 4, Decoded(get_f32(buf)))
decode_f64(buf) == Sized(buf, 8, Decoded(get_f64(buf)))
decode_Bytes(buf) == Decoded(buf)

\* Mutant of decode_Duration: only the days field is checked.
decode_Duration_days_only(buf) ==
    Sized(buf, 16,
          IF ~(get_u32(buf, 9) = <<0, 0>>) THEN Fail("NonZeroReservedBytes")
          ELSE Decoded([micros |-> get_i64(buf)]))

\* Duration: i64 micros, then u32 days and u32 months that are reserved.
decode_Duration(buf) ==
    Sized(buf, 16,
          LET micros == get_i64(buf)
              days == get_u32(buf, 9)
              months == get_u32(buf, 13)
          IN  IF ~(months = <<0, 0>> /\ days = <<0, 0>>)
              THEN Fail("NonZeroReservedBytes")
              ELSE Decoded([micros |-> micros]))
decode_RelativeDuration(buf) ==
    Sized(buf, 16,
          Decoded([micros |-> get_i64(buf), days |-> get_u32(buf, 9),
                   months |-> get_u32(buf, 13)]))
decode_DateDuration(buf) ==
    Sized(buf, 16,
          IF ~(get_i64(buf) = <<0, 0, 0, 0>>) THEN Fail("NonZeroReservedBytes")
          ELSE Decoded([days |-> get_u32(buf, 9), months |-> get_u32(buf, 13)]))
\* from_postgres_micros is outside this module: in_range is its verdict.
decode_Datetime(buf, in_range) ==
    IF decode_i64(buf).kind # "Ok" THEN decode_i64(buf)
    ELSE IF ~in_range THEN Fail("InvalidDate")
    ELSE Decoded([micros |-> decode_i64(buf).val])
decode_LocalDatetime(buf, in_range) ==
    IF decode_i64(buf).kind # "Ok" THEN decode_i64(buf)
    ELSE IF ~in_range THEN Fail("InvalidDate")
    ELSE Decoded([micros |-> decode_i64(buf).val])
decode_LocalDate(buf) ==
    IF decode_i32(buf).kind # "Ok" THEN decode_i32(buf)
    ELSE Decoded([days |-> decode_i32(buf).val])

\* 86_400 * 1_000_000 as limbs.
MicrosPerDay == <<0, 20, 7639, 24576>>
\* a < b for two non-negative i64.
i64_lt(a, b) ==
    \E i \in 1..4 : a[i] < b[i] /\ \A j \in 1..(i - 1) : a[j] = b[j]
\* Mutant of decode_LocalTime: the upper end of the range is included.
decode_LocalTime_inclusive(buf) ==
    IF decode_i64(buf).kind # "Ok" THEN decode_i64(buf)
    ELSE LET micros == decode_i64(buf).val
         IN  IF ~(micros[1] < 32768
                    /\ (i64_lt(micros, MicrosPerDay) \/ micros = MicrosPerDay))
             THEN Fail("InvalidDate")
             ELSE Decoded([micros |-> micros])

decode_LocalTime(buf) ==
    IF decode_i64(buf).kind # "Ok" THEN decode_i64(buf)
    ELSE LET micros == decode_i64(buf).val
         IN  IF ~(micros[1] < 32768 /\ i64_lt(micros, MicrosPerDay))
             THEN Fail("InvalidDate")
             ELSE Decoded([micros |-> micros])

\* The digits of a decimal: ndigits u16 read from buf[from..].
get_digits(buf, from, ndigits) ==
    [i \in 1..ndigits |-> get_u16(buf, from + 2 * (i - 1))]

\* Mutant of decode_Decimal: the payload may be longer than the digits.
decode_Decimal_min_size(buf) ==
    IF ~(Len(buf) >= 8) THEN Fail("Underflow")
    ELSE IF ~(get_u16(buf, 5) \in {0, 16384}) THEN Fail("BadSign")
    ELSE IF Len(buf) - 8 < get_u16(buf, 1) * 2 THEN Fail("Underflow")
    ELSE Decoded([negative |-> get_u16(buf, 5) = 16384,
                  weight |-> get_i16(SubSeq(buf, 3, 4)),
                  decimal_digits |-> get_u16(buf, 7),
                  digits |-> get_digits(buf, 9, get_u16(buf, 1))])

decode_Decimal(buf) ==
    IF ~(Len(buf) >= 8) THEN Fail("Underflow")
    ELSE
      LET ndigits == get_u16(buf, 1)
          weight == get_i16(SubSeq(buf, 3, 4))
          sign == get_u16(buf, 5)
          decimal_digits == get_u16(buf, 7)
          rest == SubSeq(buf, 9, Len(buf))
      IN  IF ~(sign \in {0, 16384}) THEN Fail("BadSign")
          ELSE IF ensure_exact_size(rest, ndigits * 2) # "Ok"
          THEN Fail(ensure_exact_size(rest, ndigits * 2))
          ELSE Decoded([negative |-> sign = 16384, weight |-> weight,
                        decimal_digits |-> decimal_digits,
                        digits |-> get_digits(buf, 9, ndigits)])

decode_BigInt(buf) ==
    IF ~(Len(buf) >= 8) THEN Fail("Underflow")
    ELSE
      LET ndigits == get_u16(buf, 1)
          weight == get_i16(SubSeq(buf, 3, 4))
          sign == get_u16(buf, 5)
          decimal_digits == get_u16(buf, 7)
          rest == SubSeq(buf, 9, Len(buf))
      IN  IF ~(sign \in {0, 16384}) THEN Fail("BadSign")
          ELSE IF ~(decimal_digits = 0) THEN Fail("NonZeroReservedBytes")
          ELSE IF ensure_exact_size(rest, ndigits * 2) # "Ok"
          THEN Fail(ensure_exact_size(rest, ndigits * 2))
          ELSE Decoded([negative |-> sign = 16384, weight |-> weight,
                        digits |-> get_digits(buf, 9, ndigits)])

DecodeTypes ==
    {"String", "Json", "Uuid", "bool", "i16", "i32", "i64", "ConfigMemory",
     "f32", "f64", "Bytes", "Duration", "RelativeDuration", "DateDuration",
     "Datetime", "LocalDatetime", "LocalDate", "LocalTime", "Decimal", "BigInt"}

\* <T as RawCodec>::decode(buf)
decode(T, buf, in_range) ==
    CASE T = "String" -> decode_String(buf)
      [] T = "Json" -> decode_Json(buf)
      [] T = "Uuid" -> decode_Uuid(buf)
      [] T = "bool" -> decode_bool(buf)
      [] T = "i16" -> decode_i16(buf)
      [] T = "i32" -> decode_i32(buf)
      [] T = "i64" -> decode_i64(buf)
      [] T = "ConfigMemory" -> decode_ConfigMemory(buf)
      [] T = "f32" -> decode_f32(buf)
      [] T = "f64" -> decode_f64(buf)
      [] T = "Bytes" -> decode_Bytes(buf)
      [] T = "Duration" -> decode_Duration(buf)
      [] T = "RelativeDuration" -> decode_RelativeDuration(buf)
      [] T = "DateDuration" -> decode_DateDuration(buf)
      [] T = "Datetime" -> decode_Datetime(buf, in_range)
      [] T = "LocalDatetime" -> decode_LocalDatetime(buf, in_range)
      [] T = "LocalDate" -> decode_LocalDate(buf)
      [] T = "LocalTime" -> decode_LocalTime(buf)
      [] T = "Decimal" -> decode_Decimal(buf)
      [] T = "BigInt" -> decode_BigInt(buf)

\* ---- ScalarArg::encode, into an empty encoder.buf ----
encode_String(v) == as_bytes(v)
\* Mutant of encode_Json: the format byte is left out.
encode_Json_no_format(v) == as_bytes(v)
encode_Json(v) == put_u8(1) \o as_bytes(v)
encode_Uuid(v) == v
encode_bool(v) == put_u8(IF v = FALSE THEN 0 ELSE 1)
encode_i16(v) == put_i16(v)
encode_i32(v) == put_i32(v)
encode_i64(v) == put_i64(v)
encode_ConfigMemory(v) == put_i64(v)
encode_f32(v) == put_f32(v)
encode_f64(v) == put_f64(v)
encode_Bytes(v) == v

\* Encoder::length_prefixed: a u32 length, then what the closure wrote.
length_prefixed(written) == put_u32(<<0, Len(written)>>) \o written

\* The range flags.
EMPTY == 1
LB_INC == 2
UB_INC == 4
LB_INF == 8
UB_INF == 16

\* Range<i64>::encode.  The flags are distinct bits, so | is +.
encode_Range(r) ==
    LET flags == IF r.empty THEN EMPTY
                 ELSE (IF r.inc_lower THEN LB_INC ELSE 0)
                        + (IF r.inc_upper THEN UB_INC ELSE 0)
                        + (IF is_none(r.lower) THEN LB_INF ELSE 0)
                        + (IF is_none(r.upper) THEN UB_INF ELSE 0)
    IN  put_u8(flags)
          \o (IF is_some(r.lower) THEN length_prefixed(encode_i64(unwrap(r.lower)))
              ELSE <<>>)
          \o (IF is_some(r.upper) THEN length_prefixed(encode_i64(unwrap(r.upper)))
              ELSE <<>>)

EncodeTypes ==
    {"String", "Json", "Uuid", "bool", "i16", "i32", "i64", "ConfigMemory",
     "f32", "f64", "Bytes", "Range"}

\* <T as ScalarArg>::encode(v, encoder)
encode(T, v) ==
    CASE T = "String" -> encode_String(v)
      [] T = "Json" -> encode_Json(v)
      [] T = "Uuid" -> encode_Uuid(v)
      [] T = "bool" -> encode_bool(v)
      [] T = "i16" -> encode_i16(v)
      [] T = "i32" -> encode_i32(v)
      [] T = "i64" -> encode_i64(v)
      [] T = "ConfigMemory" -> encode_ConfigMemory(v)
      [] T = "f32" -> encode_f32(v)
      [] T = "f64" -> encode_f64(v)
      [] T = "Bytes" -> encode_Bytes(v)
      [] T = "Range" -> encode_Range(v)

\* ---- the values and buffers the codecs are applied to ----
SeqsUpTo(S, n) == UNION {[1..k -> S] : k \in 0..n}
\* Scalar values at the edges of the UTF-8 widths and of the surrogate gap.
Chars == {0, 65, 127, 128, 233, 2047, 2048, 55295, 57344, 65535, 65536, 1114111}
Limbs == {0, 258, 32768, 65535}
ByteSamples == {0, 1, 128, 255}
I64Values == [1..4 -> Limbs]
RangeValues ==
    [lower : {None, Some(<<0, 0, 0, 1>>)},
     upper : {None, Some(<<0, 0, 0, 10>>)},
     inc_lower : BOOLEAN, inc_upper : BOOLEAN, empty : BOOLEAN]

Values(T) ==
    CASE T \in {"String", "Json"} -> SeqsUpTo(Chars, MaxStrLen)
      [] T = "Uuid" -> {[i \in 1..16 |-> (s + i * k) % 256] : s \in {0, 255}, k \in {0, 1, 17}}
      [] T = "bool" -> BOOLEAN
      [] T = "i16" -> {-32768, -1, 0, 1, 258, 32767}
      [] T = "i32" -> {-2147483647 - 1, -65537, -1, 0, 1, 66051, 2147483647}
      [] T \in {"i64", "ConfigMemory", "f64"} -> I64Values
      [] T = "f32" -> [1..2 -> Limbs]
      [] T = "Bytes" -> SeqsUpTo(ByteSamples, MaxStrLen)
      [] T = "Range" -> RangeValues

\* The most digits a decimal on the wire announces and carries.
MaxDigits == 2

\* A buffer of n bytes: its first byte, the fill of its first eight bytes,
\* the fill of bytes 9..12 and the fill of the rest.
WireBuf(n, lead, head, tail, last) ==
    [i \in 1..n |-> IF i = 1 THEN lead ELSE IF i <= 8 THEN head
                    ELSE IF i <= 12 THEN tail ELSE last]
WireBufs ==
    {WireBuf(n, lead, head, tail, last) :
        n \in 0..MaxBufLen, lead \in {0, 1, 2}, head \in {0, 255},
        tail \in {0, 255}, last \in {0, 255}}

\* 8-byte buffers around the ends of the local-time range.
LocalTimeBufs ==
    {put_i64(v) : v \in {<<0, 0, 0, 1>>, <<0, 19, 65535, 65535>>,
                         <<0, 20, 7639, 24575>>, <<0, 20, 7639, 24576>>,
                         <<0, 20, 7639, 24577>>, <<0, 20, 7640, 0>>,
                         <<0, 21, 0, 0>>, <<1, 0, 0, 0>>,
                         <<32767, 65535, 65535, 65535>>, <<32768, 0, 0, 0>>,
                         <<65535, 65535, 65535, 65535>>}}

\* Decimal / big-int buffers: the four header fields, then a payload.
DecimalBufs ==
    {put_u16(ndigits) \o put_i16(weight) \o put_u16(sign) \o put_u16(dscale)
        \o [i \in 1..n |-> (16 * i) % 256] :
        ndigits \in 0..MaxDigits, weight \in {-1, 258},
        sign \in {0, 16384, 1, 32768}, dscale \in {0, 3},
        n \in 0..(2 * MaxDigits + 1)}

NoValue == [type |-> "none", v |-> <<>>, encoded |-> FALSE]
NoDecoded == [type |-> "none", kind |-> "none", val |-> <<>>]

CodecIdle ==
    /\ cbuf = <<>>
    /\ cval = NoValue
    /\ cres = NoDecoded

\* Either a value is about to be encoded, or a buffer came from the wire.
CodecInit ==
    /\ \/ /\ \E T \in EncodeTypes : \E v \in Values(T) :
                cval = [type |-> T, v |-> v, encoded |-> FALSE]
          /\ cbuf = <<>>
       \/ /\ cval = NoValue
          /\ cbuf \in WireBufs \cup LocalTimeBufs \cup DecimalBufs
    /\ cres = NoDecoded

\* v.encode(&mut encoder) on an encoder whose buffer is empty.
Encode ==
    /\ cval.type # "none" /\ ~cval.encoded
    /\ cbuf' = encode(cval.type, cval.v)
    /\ cval' = [cval EXCEPT !.encoded = TRUE]
    /\ cres' = NoDecoded
    /\ UNCHANGED notCodec

\* T::decode(buf) on the buffer: the one received or the one encode wrote.
Decode ==
    /\ cval.type = "none" \/ cval.encoded
    /\ cres.kind = "none"
    /\ \E T \in DecodeTypes, in_range \in BOOLEAN :
          cres' = [type |-> T, kind |-> decode(T, cbuf, in_range).kind,
                   val |-> decode(T, cbuf, in_range).val]
    /\ UNCHANGED <<cbuf, cval, notCodec>>

CodecNext == Encode \/ Decode

(***************************************************************************)
(*            MESSAGE FRAMING (gel-db-protocol/src/protocol.rs)            *)
(*                                                                         *)
(* protocol.rs declares the envelope (mtype: u8, mlen: len, data: Rest)    *)
(* and the message groups; the reader and the writer follow section 4.2    *)
(* of the specification.                                                   *)
(***************************************************************************)

\* The most messages in a stream and the longest payload of one.
MaxMsgs == 2
MaxPayload == 2

\* The mtype of every message of the EdgeDBBackend group:
\* R K S v Z + C T s D @ = E L.
EdgeDBBackend == {82, 75, 83, 118, 90, 43, 67, 84, 115, 68, 64, 61, 69, 76}
\* Tags on the wire: ReadyForCommand, Data, ErrorResponse, and two that are
\* no backend message ('P' of Parse, and '?').
TagSamples == {90, 68, 69, 80, 63}

\* struct Message: mtype, mlen (which counts itself), data.
Message(mtype, data) == [mtype |-> mtype, data |-> data]
\* Write: the tag, mlen = payload.len() + 4, the payload.
write_message(m) == <<m.mtype>> \o put_u32(<<0, Len(m.data) + 4>>) \o m.data

RECURSIVE write_all(_)
write_all(ms) ==
    IF ms = <<>> THEN <<>> ELSE write_message(Head(ms)) \o write_all(Tail(ms))

Payloads == {[i \in 1..n |-> 16 * i + fill] : n \in 0..MaxPayload, fill \in {0}}
Messages == {Message(t, d) : t \in TagSamples, d \in Payloads}
\* What may follow the whole messages: nothing, headers whose mlen is below
\* 4, a cut header, a cut payload, an mlen past the end of the stream.
Trailers ==
    {<<>>, <<90, 0, 0, 0, 3>>, <<63, 0, 0, 0, 0, 7>>, <<90, 0, 0>>,
     <<68, 0, 0, 0, 8, 1>>, <<68, 0, 1, 0, 0>>}

NoRead == [kind |-> "none", mtype |-> 0, data |-> <<>>, start |-> 0]
ReadResult(kind, mtype, data, start) ==
    [kind |-> kind, mtype |-> mtype, data |-> data, start |-> start]

\* Mutant of read_message: an unknown tag is reported as soon as the header
\* is read, its payload left in the stream.
read_message_early(bytes, pos) ==
    LET left == Len(bytes) - pos
        mlen == get_u32(bytes, pos + 2)
    IN  IF left < 5 THEN [pos |-> Len(bytes), res |-> ReadResult("Eof", 0, <<>>, pos)]
        ELSE IF mlen[1] = 0 /\ mlen[2] < 4
        THEN [pos |-> pos + 5,
              res |-> ReadResult("MessageTooShort", bytes[pos + 1], <<>>, pos)]
        ELSE IF ~(bytes[pos + 1] \in EdgeDBBackend)
        THEN [pos |-> pos + 5,
              res |-> ReadResult("UnexpectedMessage", bytes[pos + 1], <<>>, pos)]
        ELSE IF mlen[1] > 0 \/ mlen[2] - 4 > left - 5
        THEN [pos |-> Len(bytes), res |-> ReadResult("Eof", bytes[pos + 1], <<>>, pos)]
        ELSE [pos |-> pos + mlen[2] + 1,
              res |-> ReadResult("Message", bytes[pos + 1],
                                 SubSeq(bytes, pos + 6, pos + mlen[2] + 1), pos)]

\* Read: 5 bytes of header; mlen < 4 fails with MessageTooShort; then
\* mlen - 4 bytes of payload; then dispatch on mtype through the group.  A
\* stream that ends inside a message is a transport error (Eof).
read_message(bytes, pos) ==
    LET left == Len(bytes) - pos
        mlen == get_u32(bytes, pos + 2)
    IN  IF left < 5 THEN [pos |-> Len(bytes), res |-> ReadResult("Eof", 0, <<>>, pos)]
        ELSE IF mlen[1] = 0 /\ mlen[2] < 4
        THEN [pos |-> pos + 5,
              res |-> ReadResult("MessageTooShort", bytes[pos + 1], <<>>, pos)]
        ELSE IF mlen[1] > 0 \/ mlen[2] - 4 > left - 5
        THEN [pos |-> Len(bytes), res |-> ReadResult("Eof", bytes[pos + 1], <<>>, pos)]
        ELSE [pos |-> pos + mlen[2] + 1,
              res |-> ReadResult(IF bytes[pos + 1] \in EdgeDBBackend
                                 THEN "Message" ELSE "UnexpectedMessage",
                                 bytes[pos + 1],
                                 SubSeq(bytes, pos + 6, pos + mlen[2] + 1), pos)]

FrameIdle ==
    /\ wire = [msgs |-> <<>>, bytes |-> <<>>]
    /\ fpos = 0
    /\ fcount = 0
    /\ fres = NoRead

\* The peer wrote up to MaxMsgs messages, and then possibly a trailer.
FrameInit ==
    /\ \E ms \in UNION {[1..n -> Messages] : n \in 0..MaxMsgs}, tr \in Trailers :
          wire = [msgs |-> ms, bytes |-> write_all(ms) \o tr]
    /\ fpos = 0
    /\ fcount = 0
    /\ fres = NoRead

\* One message is read from the stream.  Framing and transport errors are
\* fatal: nothing is read after one.
ReadMessage ==
    /\ fres.kind \in {"none", "Message", "UnexpectedMessage"}
    /\ fpos < Len(wire.bytes)
    /\ fpos' = read_message(wire.bytes, fpos).pos
    /\ fres' = read_message(wire.bytes, fpos).res
    /\ fcount' = IF fres'.kind \in {"Message", "UnexpectedMessage"}
                 THEN fcount + 1 ELSE fcount
    /\ UNCHANGED <<wire, notFrame>>

FrameNext == ReadMessage

(***************************************************************************)
(*                      PROTOCOL STATE MACHINE                             *)
(*                                                                         *)
(* protocol.rs declares the messages (ReadyForCommand with its             *)
(* transaction_state, Sync, ErrorResponse, ...); the connection that       *)
(* exchanges them follows section 4.4 of the specification.                *)
(***************************************************************************)

\* The most messages the server sends and the most requests the caller makes.
MaxRecv == 4
MaxRequests == 2

\* enum TransactionState: NotInTransaction, InTransaction, InFailedTransaction.
TransactionState == {73, 84, 69}
NotInTransaction == 73

ServerMessage(mtype, txn) == [mtype |-> mtype, transaction_state |-> txn]
ServerMessages ==
    {ServerMessage(t, 0) : t \in {"Data", "CommandComplete", "CommandDataDescription",
                                  "ErrorResponse", "ParameterStatus"}}
      \cup {ServerMessage("ReadyForCommand", t) : t \in TransactionState}

\* How many requests of the caller are in what was sent.
Requests(sent) == Cardinality({i \in 1..Len(sent) : sent[i] \in {"Parse", "Execute"}})

\* Mutant of on_message: while recovering, Data still reaches the caller.
on_message_deliver(c, m) ==
    IF m.mtype = "ReadyForCommand"
    THEN [c EXCEPT !.state = "Idle", !.txn = m.transaction_state]
    ELSE IF c.state = "Busy" /\ m.mtype = "ErrorResponse"
    THEN [c EXCEPT !.state = "Recovering", !.sent = Append(@, "Sync"),
                   !.delivered = Append(@, m.mtype)]
    ELSE IF c.state \in {"Busy", "Recovering"} /\ m.mtype # "ParameterStatus"
    THEN [c EXCEPT !.delivered = Append(@, m.mtype)]
    ELSE c

\* What the connection does with one message of the server.
\*   ReadyForCommand: update TxnState, go to Idle (4.4, transition 4).
\*   ErrorResponse in a pipeline: surfaced to the caller, Sync is sent, and
\*   everything up to the next ReadyForCommand is discarded (transition 7).
\*   ParameterStatus and the like: stored, no transition (transition 3).
on_message(c, m) ==
    IF m.mtype = "ReadyForCommand"
    THEN [c EXCEPT !.state = "Idle", !.txn = m.transaction_state]
    ELSE IF c.state = "Recovering"
    THEN [c EXCEPT !.discarded = @ + 1]
    ELSE IF c.state = "Busy" /\ m.mtype = "ErrorResponse"
    THEN [c EXCEPT !.state = "Recovering", !.sent = Append(@, "Sync"),
                   !.delivered = Append(@, m.mtype)]
    ELSE IF c.state = "Busy" /\ m.mtype # "ParameterStatus"
    THEN [c EXCEPT !.delivered = Append(@, m.mtype)]
    ELSE c

\* An authenticated connection that has seen its first ReadyForCommand.
ConnIdle ==
    /\ conn = [state |-> "Idle", txn |-> NotInTransaction, sent |-> <<>>,
               delivered |-> <<>>, discarded |-> 0, received |-> 0]
    /\ inbox = <<>>

ConnInit == ConnIdle

\* parse(query, options): accepted in Idle, sends Parse.
ParseCall ==
    /\ conn.state = "Idle" /\ Requests(conn.sent) < MaxRequests
    /\ conn' = [conn EXCEPT !.state = "Busy", !.sent = Append(@, "Parse")]
    /\ UNCHANGED <<inbox, notConn>>

\* execute(desc, args): accepted in Idle, sends Execute.
ExecuteCall ==
    /\ conn.state = "Idle" /\ Requests(conn.sent) < MaxRequests
    /\ conn' = [conn EXCEPT !.state = "Busy", !.sent = Append(@, "Execute")]
    /\ UNCHANGED <<inbox, notConn>>

\* The server sends a message; the stream keeps the order.
ServerSend ==
    /\ conn.received + Len(inbox) < MaxRecv
    /\ \E m \in ServerMessages : inbox' = Append(inbox, m)
    /\ UNCHANGED <<conn, notConn>>

\* The connection takes the next message off the stream.
Receive ==
    /\ inbox # <<>>
    /\ conn' = [on_message(conn, Head(inbox)) EXCEPT !.received = @ + 1]
    /\ inbox' = Tail(inbox)
    /\ UNCHANGED notConn

ConnNext == ParseCall \/ ExecuteCall \/ ServerSend \/ Receive

(***************************************************************************)
(*                        CLIENT CONFIGURATION                             *)
(***************************************************************************)

\* enum TlsSecurity
TlsSecurity == {"Insecure", "NoHostVerification", "Strict", "Default"}

\* enum CloudCerts
CloudCerts == {"Staging", "Local"}

\* Hosts of a Config: the text as a sequence of characters, and whether
\* IpAddr::from_str accepts it.  A Unix socket path has no host().
HostFor(chars, ip) == [chars |-> chars, is_ip |-> ip]
ConfigHosts ==
    {HostFor(<<"d", "b">>, FALSE), HostFor(<<"1", "2", "7", ".", "0", ".", "0", ".", "1">>, TRUE),
     HostFor(<<":", ":", "1">>, TRUE), HostFor(<<"f", "e", ":", ":", "1">>, TRUE)}
ServerNames == {<<"s", "n", "i">>}

\* format!("{ip}.host-for-ip.edgedb.net"): the suffix is one token here.
HostForIpSuffix == <<".host-for-ip.edgedb.net">>

\* Mutant of replace_colons: nothing is replaced.
replace_colons_keep(chars) == chars

\* host.replace([':', '%'], "-")
replace_colons(chars) ==
    [i \in 1..Len(chars) |-> IF chars[i] \in {":", "%"} THEN "-" ELSE chars[i]]

\* The sni_override of to_tls.
sni_override(c) ==
    IF is_some(c.tls_server_name) THEN c.tls_server_name
    ELSE IF is_none(c.host) THEN None
    ELSE LET h == unwrap(c.host)
             dashed == replace_colons(h.chars \o HostForIpSuffix)
         IN  IF h.is_ip
             THEN IF dashed[1] = "-" THEN Some(<<"i">> \o dashed) ELSE Some(dashed)
             ELSE Some(h.chars)

\* The root_cert of to_tls.
root_cert(c) ==
    IF is_some(c.tls_ca) THEN [kind |-> "Custom", certs |-> unwrap(c.tls_ca)]
    ELSE IF is_some(c.cloud_certs)
         THEN [kind |-> "WebpkiPlus", certs |-> unwrap(c.cloud_certs)]
         ELSE [kind |-> "Webpki", certs |-> "none"]

\* The match on self.tls_security in to_tls.
server_cert_verify(c) ==
    CASE c.tls_security = "Insecure" -> "Insecure"
      [] c.tls_security = "NoHostVerification" -> "IgnoreHostname"
      [] c.tls_security \in {"Strict", "Default"} -> "VerifyFull"

\* Config::to_tls
to_tls(c) ==
    [root_cert |-> root_cert(c),
     server_cert_verify |-> server_cert_verify(c),
     alpn |-> <<"edgedb-binary", "gel-binary">>,
     sni_override |-> sni_override(c)]

\* Config::with_tls_ca
with_tls_ca(c, certs) == [c EXCEPT !.tls_ca = Some(certs)]

\* The certificate lists a Config can pin.
CertSets == {"ca1", "ca2"}
Opt(S) == {None} \cup {Some(x) : x \in S}

\* DEFAULT_PORT, DEFAULT_WAIT (seconds), DEFAULT_USER, LOCALHOST
DEFAULT_PORT == 5656
DEFAULT_WAIT == 30
DEFAULT_USER == "edgedb"
LOCALHOST == HostFor(<<"localhost">>, FALSE)

\* enum DatabaseBranch
DatabaseBranch(tag, n) == [tag |-> tag, name |-> n]
DbDefault == DatabaseBranch("Default", "")

\* enum Authentication
Authentication(tag, secret) == [tag |-> tag, secret |-> secret]
AuthNone == Authentication("None", "")

\* impl Default for Config
ConfigDefault ==
    [host |-> Some(LOCALHOST), port |-> DEFAULT_PORT, db |-> DbDefault,
     user |-> DEFAULT_USER, authentication |-> AuthNone, tls_security |-> "Strict",
     tls_ca |-> None, tls_server_name |-> None, wait_until_available |-> DEFAULT_WAIT,
     cloud_certs |-> None, server_settings |-> <<>>]

\* The Configs to_tls is applied to: the fields it reads take every value.
Configs ==
    {[ConfigDefault EXCEPT !.tls_security = sec, !.tls_ca = ca, !.cloud_certs = cc,
                           !.tls_server_name = sn, !.host = h] :
        sec \in TlsSecurity, ca \in Opt(CertSets), cc \in Opt(CloudCerts),
        sn \in Opt(ServerNames), h \in Opt(ConfigHosts)}

CfgIdle ==
    /\ config = ConfigDefault
    /\ tlsout = None

\* A Config as built, before with_tls_ca replaces its list: no pin or "ca1".
CfgInit ==
    /\ config \in Configs
    /\ config.tls_ca \in Opt({"ca1"})
    /\ tlsout = None

WithTlsCa ==
    /\ \E certs \in CertSets : config' = with_tls_ca(config, certs)
    /\ tlsout' = None
    /\ UNCHANGED notCfg

ToTls ==
    /\ tlsout' = Some(to_tls(config))
    /\ UNCHANGED <<config, notCfg>>

CfgNext == WithTlsCa \/ ToTls

(***************************************************************************)
(*        CONFIGURATION OUTPUTS: dsn_url, as_credentials, selector         *)
(***************************************************************************)

\* The highest protocol version a server negotiates.
MaxProtoMajor == 3
ProtoVersions == 1..MaxProtoMajor

DEFAULT_DATABASE_NAME == "edgedb"
DEFAULT_BRANCH_NAME_CONNECT == "__default__"
DEFAULT_BRANCH_NAME_CREATE == "main"

\* DatabaseBranch::database
database(db) ==
    CASE db.tag = "Database" -> Some(db.name)
      [] db.tag = "Branch" -> Some(db.name)
      [] db.tag = "Ambiguous" -> Some(db.name)
      [] db.tag = "Default" -> Some(DEFAULT_DATABASE_NAME)

\* DatabaseBranch::branch_for_create; also the mutant of branch_for_connect.
branch_for_create(db) ==
    CASE db.tag = "Branch" -> Some(db.name)
      [] db.tag = "Database" -> Some(db.name)
      [] db.tag = "Ambiguous" -> Some(db.name)
      [] db.tag = "Default" -> Some(DEFAULT_BRANCH_NAME_CREATE)

\* DatabaseBranch::branch_for_connect
branch_for_connect(db) ==
    CASE db.tag = "Branch" -> Some(db.name)
      [] db.tag = "Database" -> Some(db.name)
      [] db.tag = "Ambiguous" -> Some(db.name)
      [] db.tag = "Default" -> Some(DEFAULT_BRANCH_NAME_CONNECT)

\* Authentication::password, Authentication::secret_key
password(a) == IF a.tag = "Password" THEN Some(a.secret) ELSE None
secret_key(a) == IF a.tag = "SecretKey" THEN Some(a.secret) ELSE None

\* host.target_name().ok()?.tcp(): the host and port of a TCP host.
tcp(c) == IF is_none(c.host) THEN None
          ELSE Some([host |-> unwrap(c.host).chars, port |-> c.port])

\* The selector sent at connect time: the branch on protocol 2 and later,
\* the database before.
connect_selector(db, proto) ==
    IF proto >= 2
    THEN [key |-> "branch", value |-> unwrap(branch_for_connect(db))]
    ELSE [key |-> "database", value |-> unwrap(database(db))]

\* A URL: authority, path and the query pairs in the order they were added.
Url(h, prt, pth, un, pw, q) ==
    [host |-> h, port |-> prt, path |-> pth, username |-> un, password |-> pw,
     query |-> q]

\* format_duration
format_duration(d) == ToString(d) \o "s"

\* Config::dsn_url, step by step as the code mutates the Url.
dsn_url(c) ==
    IF is_none(tcp(c)) THEN None
    ELSE
    LET hp == unwrap(tcp(c))
        u0 == Url(None, None, None, None, None, <<>>)
        u1 == IF hp.host # LOCALHOST.chars
              THEN IF hp.port # DEFAULT_PORT
                   THEN [u0 EXCEPT !.host = Some(hp.host), !.port = Some(hp.port)]
                   ELSE [u0 EXCEPT !.host = Some(hp.host)]
              ELSE IF hp.port # DEFAULT_PORT
                   THEN [u0 EXCEPT !.query = Append(@, <<"port", ToString(hp.port)>>)]
                   ELSE u0
        u2 == IF c.db # DbDefault
              THEN [u1 EXCEPT !.path = branch_for_connect(c.db)]
              ELSE u1
        u3 == IF c.user # DEFAULT_USER
              THEN IF is_none(u2.host)
                   THEN [u2 EXCEPT !.query = Append(@, <<"user", c.user>>)]
                   ELSE [u2 EXCEPT !.username = Some(c.user)]
              ELSE u2
        pw == password(c.authentication)
        u4 == IF is_some(pw)
              THEN IF is_none(u3.host)
                   THEN [u3 EXCEPT !.query = Append(@, <<"password", unwrap(pw)>>)]
                   ELSE [u3 EXCEPT !.password = pw]
              ELSE u3
        u5 == IF is_some(c.tls_ca)
              THEN [u4 EXCEPT !.query = Append(@, <<"tls_ca_file", "<...>">>)]
              ELSE u4
        sk == secret_key(c.authentication)
        u6 == IF is_some(sk)
              THEN [u5 EXCEPT !.query = Append(@, <<"secret_key", unwrap(sk)>>)]
              ELSE u5
        u7 == IF c.tls_security # "Strict"
              THEN [u6 EXCEPT !.query = Append(@, <<"tls_security", c.tls_security>>)]
              ELSE u6
        u8 == IF is_some(c.tls_server_name)
              THEN [u7 EXCEPT !.query =
                        Append(@, <<"tls_server_name", unwrap(c.tls_server_name)>>)]
              ELSE u7
        u9 == IF c.wait_until_available # DEFAULT_WAIT
              THEN [u8 EXCEPT !.query =
                        Append(@, <<"wait_until_available",
                                    format_duration(c.wait_until_available)>>)]
              ELSE u8
    IN  Some([u9 EXCEPT !.query = @ \o c.server_settings])

\* What the operations are called with.
DsnHosts ==
    {Some(LOCALHOST), Some(HostFor(<<"d", "b">>, FALSE)),
     Some(HostFor(<<"1", "2", "7", ".", "0", ".", "0", ".", "1">>, TRUE)), None}
DsnPorts == {0, 1234, DEFAULT_PORT}
DbNames == {"main"}
Dbs == {DbDefault} \cup {DatabaseBranch(t, n) : t \in {"Database", "Branch", "Ambiguous"},
                                                n \in DbNames}
Users == {DEFAULT_USER, "user"}
Waits == {DEFAULT_WAIT, 10}
Settings == {<<>>, << <<"app", "x">> >>}

\* The first value of a key among the query pairs.
query_get(q, key) ==
    LET hits == {i \in 1..Len(q) : q[i][1] = key}
    IN  IF hits = {} THEN None
        ELSE Some(q[CHOOSE i \in hits : \A j \in hits : i <= j][2])

\* The query parameters the DSN grammar recognizes.
DsnParameters ==
    {"user", "password", "secret_key", "database", "branch", "tls_security",
     "tls_ca", "tls_ca_file", "tls_server_name", "wait_until_available", "port"}

\* HostType::from_str: an address when the text is one, else a name.
HostType_from_str(chars) ==
    HostFor(chars, chars[1] \in {"0", "1", "2", "3", "4", "5", "6", "7", "8", "9", ":"})

\* The Config the DSN grammar gives for a URL:
\* gel://[user[:password]@]host[:port][/db_or_branch][?k=v&...], where the
\* path names a selector that is neither database nor branch, port is a
\* query parameter for localhost, and unknown parameters are server
\* settings.  A tls_ca_file that cannot be read leaves no CA.
parse_dsn(u) ==
    LET q == u.query
        prt == query_get(q, "port")
        un == IF is_some(u.username) THEN u.username ELSE query_get(q, "user")
        pw == IF is_some(u.password) THEN u.password ELSE query_get(q, "password")
        sk == query_get(q, "secret_key")
        sec == query_get(q, "tls_security")
        wait == query_get(q, "wait_until_available")
    IN  [host |-> IF is_some(u.host) THEN Some(HostType_from_str(unwrap(u.host)))
                  ELSE Some(LOCALHOST),
         port |-> IF is_some(u.port) THEN unwrap(u.port)
                  ELSE IF is_some(prt)
                       THEN CHOOSE n \in DsnPorts : ToString(n) = unwrap(prt)
                       ELSE DEFAULT_PORT,
         db |-> IF is_some(query_get(q, "database"))
                THEN DatabaseBranch("Database", unwrap(query_get(q, "database")))
                ELSE IF is_some(query_get(q, "branch"))
                THEN DatabaseBranch("Branch", unwrap(query_get(q, "branch")))
                ELSE IF is_some(u.path)
                THEN DatabaseBranch("Ambiguous", unwrap(u.path))
                ELSE DbDefault,
         user |-> IF is_some(un) THEN unwrap(un) ELSE DEFAULT_USER,
         authentication |->
                IF is_some(pw) THEN Authentication("Password", unwrap(pw))
                ELSE IF is_some(sk) THEN Authentication("SecretKey", unwrap(sk))
                ELSE AuthNone,
         tls_security |-> IF is_some(sec) THEN unwrap(sec) ELSE "Strict",
         tls_ca |-> None,
         tls_server_name |-> query_get(q, "tls_server_name"),
         wait_until_available |->
                IF is_some(wait)
                THEN CHOOSE d \in Waits : format_duration(d) = unwrap(wait)
                ELSE DEFAULT_WAIT,
         cloud_certs |-> None,
         server_settings |->
                SelectSeq(q, LAMBDA kv : kv[1] \notin DsnParameters)]

\* to_pem
to_pem(certs) == "PEM " \o certs

\* A CredentialsFile
CredentialsFile(c, hp) ==
    [user |-> Some(c.user), host |-> Some(hp.host), port |-> Some(hp.port),
     password |-> password(c.authentication),
     secret_key |-> secret_key(c.authentication),
     database |-> database(c.db), branch |-> branch_for_connect(c.db),
     tls_ca |-> IF is_some(c.tls_ca) THEN Some(to_pem(unwrap(c.tls_ca))) ELSE None,
     tls_security |-> c.tls_security, tls_server_name |-> c.tls_server_name]

\* Config::as_credentials.  NonZero::new(port).expect("invalid zero port")
\* aborts the caller for port 0.
as_credentials(c) ==
    IF is_none(tcp(c)) THEN [kind |-> "NoTcpAddress", creds |-> None]
    ELSE IF unwrap(tcp(c)).port = 0 THEN [kind |-> "panic", creds |-> None]
    ELSE [kind |-> "Ok", creds |-> Some(CredentialsFile(c, unwrap(tcp(c))))]

\* Config::with_host, with_branch, with_db, with_user, with_password,
\* with_wait_until_available
with_host(c, h, prt) == [c EXCEPT !.host = h, !.port = prt]
with_branch(c, branch) == [c EXCEPT !.db = DatabaseBranch("Branch", branch)]
with_db(c, db) == [c EXCEPT !.db = db]
with_user(c, user) == [c EXCEPT !.user = user]
with_password(c, pw) == [c EXCEPT !.authentication = Authentication("Password", pw)]
with_wait_until_available(c, dur) == [c EXCEPT !.wait_until_available = dur]

NoOut == [op |-> "none", proto |-> 0]

DsnIdle == cfgout = NoOut

\* A Config as a builder leaves it: the fields without a with_ operation are
\* public and take any value.
DsnInit ==
    /\ \E sec \in {"Strict", "Insecure"}, sn \in Opt(ServerNames), st \in Settings,
          a \in {AuthNone, Authentication("SecretKey", "sk")} :
          config = [ConfigDefault EXCEPT !.tls_security = sec, !.tls_server_name = sn,
                                         !.server_settings = st, !.authentication = a]
    /\ tlsout = None
    /\ cfgout = NoOut

\* A with_ operation returns a new Config.  The operations are applied
\* before anything is computed of the Config.
Replace(c) ==
    /\ cfgout = NoOut
    /\ config' = c
    /\ cfgout' = NoOut
    /\ UNCHANGED tlsout

WithHost ==
    /\ \E h \in DsnHosts, prt \in DsnPorts : Replace(with_host(config, h, prt))
    /\ UNCHANGED notDsn
WithBranch ==
    /\ \E n \in DbNames : Replace(with_branch(config, n))
    /\ UNCHANGED notDsn
WithDb ==
    /\ \E db \in Dbs : Replace(with_db(config, db))
    /\ UNCHANGED notDsn
WithUser ==
    /\ \E u \in Users : Replace(with_user(config, u))
    /\ UNCHANGED notDsn
WithPassword ==
    /\ Replace(with_password(config, "pw"))
    /\ UNCHANGED notDsn
WithWaitUntilAvailable ==
    /\ \E d \in Waits : Replace(with_wait_until_available(config, d))
    /\ UNCHANGED notDsn
WithCa ==
    /\ \E certs \in {"ca1"} : Replace(with_tls_ca(config, certs))
    /\ UNCHANGED notDsn

DsnUrl ==
    /\ cfgout' = [op |-> "dsn_url", proto |-> 0, url |-> dsn_url(config)]
    /\ UNCHANGED <<config, tlsout, notDsn>>

AsCredentials ==
    /\ cfgout' = [op |-> "as_credentials", proto |-> 0, res |-> as_credentials(config)]
    /\ UNCHANGED <<config, tlsout, notDsn>>

\* The connection is made and the selector is sent for the negotiated version.
ConnectSelector ==
    /\ \E v \in ProtoVersions :
          cfgout' = [op |-> "connect", proto |-> v, sent |-> connect_selector(config.db, v)]
    /\ UNCHANGED <<config, tlsout, notDsn>>

DsnNext ==
    \/ WithHost \/ WithBranch \/ WithDb \/ WithUser \/ WithPassword
    \/ WithWaitUntilAvailable \/ WithCa
    \/ DsnUrl \/ AsCredentials \/ ConnectSelector


(***************************************************************************)
(*                          TLS CONNECTIONS                                *)
(*                                                                         *)
(* lib.rs holds SslError and its common_error; connection.rs holds         *)
(* Connector::connect.  The TLS drivers themselves are not part of the     *)
(* sources at hand: what a handshake verifies is modelled from section 4.1 *)
(* of the specification and from what tests/tls.rs observes.               *)
(***************************************************************************)

\* The TlsDriver implementations.
Drivers == {"Rustls", "Openssl"}

\* enum TlsServerCertVerify
ServerCertVerify == {"VerifyFull", "IgnoreHostname", "Insecure"}

\* 0xa00010b and 0xa0000c6
SSL_R_WRONG_VERSION_NUMBER == 167772427
SSL_R_PACKET_LENGTH_TOO_LONG == 167772358

\* An SslError: the variant, the kind of the wrapped error (rustls::Error's
\* variant, or OpenSSL's ErrorCode), its detail (the CertificateError, or the
\* X509 verify result) and the code of the first error of the error stack.
SslErr(variant, kind, detail, first) ==
    [variant |-> variant, kind |-> kind, detail |-> detail, first |-> first]
NoSslError == SslErr("none", "", "", None)

RustlsCertificateErrors ==
    {"NotValidForName", "NotValidForNameContext", "Revoked", "Expired",
     "UnknownIssuer", "NotValidYet", "BadSignature", "BadEncoding"}
X509VerifyResults ==
    {"X509_V_ERR_HOSTNAME_MISMATCH", "X509_V_ERR_IP_ADDRESS_MISMATCH",
     "X509_V_ERR_CERT_REVOKED", "X509_V_ERR_CERT_HAS_EXPIRED",
     "X509_V_ERR_UNABLE_TO_GET_ISSUER_CERT",
     "X509_V_ERR_UNABLE_TO_GET_ISSUER_CERT_LOCALLY",
     "X509_V_ERR_CERT_NOT_YET_VALID", "X509_V_ERR_CERT_SIGNATURE_FAILURE"}
\* The first code of an error stack: none, the two above, or another one
\* (0xa000086, certificate verify failed).
StackCodes ==
    {None, Some(SSL_R_WRONG_VERSION_NUMBER), Some(SSL_R_PACKET_LENGTH_TOO_LONG),
     Some(167772294)}

SslErrors ==
    {SslErr(v, "", "", None) :
        v \in {"SslUnsupportedByClient", "SslAlreadyUpgraded", "WebpkiError",
               "VerifierBuilderError", "InvalidDnsNameError", "SslIoError"}}
      \cup {SslErr("RustlsError", "InvalidCertificate", d, None) :
                d \in RustlsCertificateErrors}
      \cup {SslErr("RustlsError", k, "", None) :
                k \in {"InvalidMessage", "AlertReceived", "General"}}
      \cup {SslErr("OpenSslErrorVerify", "", d, None) : d \in X509VerifyResults}
      \cup {SslErr("OpenSslErrorStack", "", "", f) : f \in StackCodes}
      \cup {SslErr("OpenSslError", k, "", f) :
                k \in {"SSL_ERROR_SSL", "SSL_ERROR_SYSCALL", "SSL_ERROR_ZERO_RETURN"},
                f \in StackCodes}

\* Mutant of common_error: only the errors of rustls are normalised.
common_error_rustls(e) ==
    CASE e.variant = "RustlsError" /\ e.kind = "InvalidCertificate" ->
            CASE e.detail \in {"NotValidForName", "NotValidForNameContext"} ->
                    Some("InvalidCertificateForName")
              [] e.detail = "Revoked" -> Some("CertificateRevoked")
              [] e.detail = "Expired" -> Some("CertificateExpired")
              [] e.detail = "UnknownIssuer" -> Some("InvalidIssuer")
              [] OTHER -> None
      [] e.variant = "RustlsError" /\ e.kind = "InvalidMessage" ->
            Some("InvalidTlsProtocolData")
      [] OTHER -> None

\* SslError::common_error
common_error(e) ==
    CASE e.variant = "RustlsError" /\ e.kind = "InvalidCertificate" ->
            CASE e.detail \in {"NotValidForName", "NotValidForNameContext"} ->
                    Some("InvalidCertificateForName")
              [] e.detail = "Revoked" -> Some("CertificateRevoked")
              [] e.detail = "Expired" -> Some("CertificateExpired")
              [] e.detail = "UnknownIssuer" -> Some("InvalidIssuer")
              [] OTHER -> None
      [] e.variant = "RustlsError" /\ e.kind = "InvalidMessage" ->
            Some("InvalidTlsProtocolData")
      [] e.variant = "OpenSslErrorVerify" ->
            CASE e.detail = "X509_V_ERR_HOSTNAME_MISMATCH" ->
                    Some("InvalidCertificateForName")
              [] e.detail = "X509_V_ERR_IP_ADDRESS_MISMATCH" ->
                    Some("InvalidCertificateForName")
              [] e.detail = "X509_V_ERR_CERT_REVOKED" -> Some("CertificateRevoked")
              [] e.detail = "X509_V_ERR_CERT_HAS_EXPIRED" -> Some("CertificateExpired")
              [] e.detail \in {"X509_V_ERR_UNABLE_TO_GET_ISSUER_CERT",
                               "X509_V_ERR_UNABLE_TO_GET_ISSUER_CERT_LOCALLY"} ->
                    Some("InvalidIssuer")
              [] OTHER -> None
      [] e.variant = "OpenSslErrorStack" ->
            CASE e.first = Some(SSL_R_WRONG_VERSION_NUMBER) ->
                    Some("InvalidTlsProtocolData")
              [] e.first = Some(SSL_R_PACKET_LENGTH_TOO_LONG) ->
                    Some("InvalidTlsProtocolData")
              [] OTHER -> None
      [] e.variant = "OpenSslError" ->
            IF e.kind = "SSL_ERROR_SSL"
            THEN CASE e.first = Some(SSL_R_WRONG_VERSION_NUMBER) ->
                        Some("InvalidTlsProtocolData")
                   [] e.first = Some(SSL_R_PACKET_LENGTH_TOO_LONG) ->
                        Some("InvalidTlsProtocolData")
                   [] OTHER -> None
            ELSE None
      [] OTHER -> None

\* What the server presents: whether its chain is anchored in the client's
\* root certificates, whether the certificate is valid for the target's
\* name, whether a configured CRL lists it, whether it has expired.
ServerCerts ==
    [anchored : BOOLEAN, valid_for_name : BOOLEAN, revoked : BOOLEAN, expired : BOOLEAN]

\* Mutant of verify_faults: IgnoreHostname checks the name as VerifyFull does.
verify_faults_name(mode, cert) ==
    IF mode = "Insecure" THEN {}
    ELSE IF ~cert.anchored THEN {"issuer"}
    ELSE (IF cert.revoked THEN {"revoked"} ELSE {})
           \cup (IF cert.expired THEN {"expired"} ELSE {})
           \cup (IF ~cert.valid_for_name THEN {"name"} ELSE {})

\* What the client's verification can object to.  Insecure verifies nothing;
\* the other modes build the chain first (an unanchored chain is the error
\* whatever else is wrong, tests/tls.rs test_target_tcp_tls_verify_full_fails);
\* only VerifyFull looks at the name.  With several remaining faults the
\* backend reports one of them.
verify_faults(mode, cert) ==
    IF mode = "Insecure" THEN {}
    ELSE IF ~cert.anchored THEN {"issuer"}
    ELSE (IF cert.revoked THEN {"revoked"} ELSE {})
           \cup (IF cert.expired THEN {"expired"} ELSE {})
           \cup (IF mode = "VerifyFull" /\ ~cert.valid_for_name THEN {"name"} ELSE {})

\* The errors with which a driver reports a fault of the handshake.
backend_errors(driver, fault) ==
    IF driver = "Rustls"
    THEN CASE fault = "issuer" ->
                {SslErr("RustlsError", "InvalidCertificate", "UnknownIssuer", None)}
           [] fault = "name" ->
                {SslErr("RustlsError", "InvalidCertificate", d, None) :
                    d \in {"NotValidForName", "NotValidForNameContext"}}
           [] fault = "revoked" ->
                {SslErr("RustlsError", "InvalidCertificate", "Revoked", None)}
           [] fault = "expired" ->
                {SslErr("RustlsError", "InvalidCertificate", "Expired", None)}
           [] fault = "not_tls" ->
                {SslErr("RustlsError", "InvalidMessage", "", None)}
    ELSE CASE fault = "issuer" ->
                {SslErr("OpenSslErrorVerify", "", d, None) :
                    d \in {"X509_V_ERR_UNABLE_TO_GET_ISSUER_CERT",
                           "X509_V_ERR_UNABLE_TO_GET_ISSUER_CERT_LOCALLY"}}
           [] fault = "name" ->
                {SslErr("OpenSslErrorVerify", "", d, None) :
                    d \in {"X509_V_ERR_HOSTNAME_MISMATCH",
                           "X509_V_ERR_IP_ADDRESS_MISMATCH"}}
           [] fault = "revoked" ->
                {SslErr("OpenSslErrorVerify", "", "X509_V_ERR_CERT_REVOKED", None)}
           [] fault = "expired" ->
                {SslErr("OpenSslErrorVerify", "", "X509_V_ERR_CERT_HAS_EXPIRED", None)}
           [] fault = "not_tls" ->
                {SslErr("OpenSslError", "SSL_ERROR_SSL", "", Some(c)) :
                    c \in {SSL_R_WRONG_VERSION_NUMBER, SSL_R_PACKET_LENGTH_TOO_LONG}}

\* The faults of a handshake of the client with this server.
handshake_faults(t) ==
    IF ~t.server_tls THEN {"not_tls"} ELSE verify_faults(t.verify, t.cert)

\* A read after the peer closed the connection.  A plain stream, and a TLS
\* stream that received close_notify, sees end of file.  Without close_notify
\* rustls reports UnexpectedEof unless the stream ignores it; tokio-openssl
\* does not detect the missing close_notify (tests/tls.rs:401-406).
read_at_close(driver, stm, close_notify) ==
    IF stm.state # "Upgraded" \/ close_notify THEN "Eof"
    ELSE IF stm.ignore_cn THEN "Eof"
    ELSE IF driver = "Rustls" THEN "UnexpectedEof"
    ELSE "Eof"

TlsState(client, server, verify, cert, server_tls, c) ==
    [client |-> client, server |-> server, verify |-> verify, cert |-> cert,
     server_tls |-> server_tls, connector |-> c, phase |-> "new",
     origin |-> "none", err |-> NoSslError, common |-> None, stm |-> None,
     close_notify |-> FALSE, read |-> "none"]

TlsIdle ==
    tls = TlsState("Rustls", "Rustls", "VerifyFull",
                   [anchored |-> TRUE, valid_for_name |-> TRUE, revoked |-> FALSE,
                    expired |-> FALSE],
                   TRUE, Connector_new(Target_new_tcp("localhost", 0)))

\* The tests connect to a resolved address, with or without TLS parameters.
TlsTargets ==
    {Target_new_resolved_tls(SocketAddr("127.0.0.1", 0), 1),
     Target_new_resolved(SocketAddr("127.0.0.1", 0))}

TlsInit ==
    \E client \in Drivers, server \in Drivers, verify \in ServerCertVerify,
       cert \in ServerCerts, server_tls \in BOOLEAN, t \in TlsTargets :
        tls = TlsState(client, server, verify, cert, server_tls, Connector_new(t))

\* Connector::ignore_missing_tls_close_notify
TlsIgnoreMissingCloseNotify ==
    /\ tls.phase = "new"
    /\ tls' = [tls EXCEPT !.connector.ignore_missing_close_notify = TRUE]
    /\ UNCHANGED notTls

\* Connector::connect against the server: the handshake succeeds when it has
\* no fault, and fails with the driver's error for one of its faults.
TlsConnect ==
    /\ tls.phase = "new"
    /\ LET faults == IF is_some(maybe_ssl(tls.connector.target))
                     THEN handshake_faults(tls) ELSE {}
           r == connect(tls.connector, TRUE, TRUE, TRUE, faults = {})
       IN  IF r.res = "Ok"
           THEN tls' = [tls EXCEPT !.phase = "connected", !.stm = r.stream]
           ELSE \E f \in faults : \E e \in backend_errors(tls.client, f) :
                    tls' = [tls EXCEPT !.phase = "failed", !.origin = "handshake",
                                       !.err = e]
    /\ UNCHANGED notTls

\* connect fails with an SslError that does not stem from the handshake.
TlsConnectError ==
    /\ tls.phase = "new"
    /\ \E e \in SslErrors :
          tls' = [tls EXCEPT !.phase = "failed", !.origin = "other", !.err = e]
    /\ UNCHANGED notTls

\* The caller asks the error for its common error.
TlsCommonError ==
    /\ tls.phase = "failed"
    /\ tls' = [tls EXCEPT !.phase = "classified", !.common = common_error(tls.err)]
    /\ UNCHANGED notTls

\* The peer closes the connection, with or without close_notify.
TlsPeerClose ==
    /\ tls.phase = "connected"
    /\ \E cn \in BOOLEAN : tls' = [tls EXCEPT !.phase = "closed", !.close_notify = cn]
    /\ UNCHANGED notTls

\* The client reads from the closed connection.
TlsRead ==
    /\ tls.phase = "closed"
    /\ tls' = [tls EXCEPT !.phase = "read",
                          !.read = read_at_close(tls.client, unwrap(tls.stm),
                                                 tls.close_notify)]
    /\ UNCHANGED notTls

TlsNext ==
    \/ TlsIgnoreMissingCloseNotify \/ TlsConnect \/ TlsConnectError
    \/ TlsCommonError \/ TlsPeerClose \/ TlsRead

(***************************************************************************)
(*                        CONNECTION OPTIONS                               *)
(***************************************************************************)

\* Param<T>: None, Unparsed(text) or File(path).
Param_None == [kind |-> "None", v |-> ""]
Param_from_unparsed(o) ==
    IF is_none(o) THEN Param_None ELSE [kind |-> "Unparsed", v |-> unwrap(o)]
Param_from_file(o) ==
    IF is_none(o) THEN Param_None ELSE [kind |-> "File", v |-> unwrap(o)]
Param_is_none(q) == q.kind = "None"

OptionFields ==
    {"dsn", "user", "password", "instance", "database", "host", "port", "branch",
     "tls_security", "tls_ca", "tls_ca_file", "tls_server_name",
     "wait_until_available", "credentials_file", "credentials", "secret_key"}

\* The Params built from the options once no pair conflicts.
explicit(o) ==
    LET from_file == Param_from_file(o.credentials_file)
        credentials == IF Param_is_none(from_file)
                       THEN Param_from_unparsed(o.credentials) ELSE from_file
        unparsed == Param_from_unparsed(o.tls_ca)
        tls_ca == IF Param_is_none(unparsed)
                  THEN Param_from_file(o.tls_ca_file) ELSE unparsed
    IN  [f \in OptionFields \ {"credentials_file", "tls_ca_file"} |->
            CASE f = "credentials" -> credentials
              [] f = "tls_ca" -> tls_ca
              [] OTHER -> Param_from_unparsed(o[f])]

OptsErr(kind, args) == [kind |-> kind, args |-> args, params |-> None]
OptsOk(q) == [kind |-> "Ok", args |-> <<>>, params |-> Some(q)]

\* Mutant of try_into: database and branch are looked at before tls_ca.
try_into_branch_first(o) ==
    IF is_some(o.credentials) /\ is_some(o.credentials_file)
    THEN OptsErr("MultipleCompound", <<"CredentialsFile", "CredentialsFile">>)
    ELSE IF is_some(o.branch) /\ is_some(o.database)
    THEN OptsErr("ExclusiveOptions", <<"branch", "database">>)
    ELSE IF is_some(o.tls_ca) /\ is_some(o.tls_ca_file)
    THEN OptsErr("ExclusiveOptions", <<"tls_ca", "tls_ca_file">>)
    ELSE OptsOk(explicit(o))

\* impl TryInto<Params> for ConnectionOptions
try_into(o) ==
    IF is_some(o.credentials) /\ is_some(o.credentials_file)
    THEN OptsErr("MultipleCompound", <<"CredentialsFile", "CredentialsFile">>)
    ELSE IF is_some(o.tls_ca) /\ is_some(o.tls_ca_file)
    THEN OptsErr("ExclusiveOptions", <<"tls_ca", "tls_ca_file">>)
    ELSE IF is_some(o.branch) /\ is_some(o.database)
    THEN OptsErr("ExclusiveOptions", <<"branch", "database">>)
    ELSE OptsOk(explicit(o))

\* The fields the model sets freely; the others stay None.
FreeFields ==
    {"credentials", "credentials_file", "tls_ca", "tls_ca_file", "branch",
     "database", "user", "port"}
OptionValue(f) == Some(f \o "_value")
NoOptions == [f \in OptionFields |-> None]
NoParams == [kind |-> "none", args |-> <<>>, params |-> None]

OptsIdle ==
    /\ options = NoOptions
    /\ optres = NoParams

OptsInit ==
    /\ \E set \in SUBSET FreeFields :
          options = [f \in OptionFields |-> IF f \in set THEN OptionValue(f) ELSE None]
    /\ optres = NoParams

TryInto ==
    /\ optres' = try_into(options)
    /\ UNCHANGED <<options, notOpts>>

OptsNext == TryInto

(***************************************************************************)
(*                     VECTOR ARGUMENTS (gel-protocol)                     *)
(***************************************************************************)

\* Bound of the vector model: elements per vector.
MaxVecLen == 65537

\* f32 values by their bits (two 16-bit halves): 0.0 and 1.0.
F32Bits == {<<0, 0>>, <<16256, 0>>}

\* A Vec<f32> whose elements are all the same value: its length and the
\* bits of the element.
Vec(n, bits) == [len |-> n, bits |-> bits]
Vectors == {Vec(n, b) : n \in 0..MaxVecLen, b \in F32Bits}

\* usize as u16
as_u16(n) == n % 65536

\* What encode leaves in the buffer: the bytes of the header, then the
\* number of put_u32 calls of the loop and the bits each of them wrote.
Encoded(op, header, words, bits) ==
    [op |-> op, header |-> header, words |-> words, bits |-> bits]
NoEncoded == Encoded("none", <<>>, 0, <<0, 0>>)

\* <VectorRef as ScalarArg>::encode
encode_VectorRef(v) ==
    LET b1 == put_u16(as_u16(v.len))       \* put_u16(self.0.len() as u16)
        b2 == b1 \o put_u16(0)             \* put_u16(0)
    IN  Encoded("VectorRef", b2, v.len, v.bits)

\* <Vector as ScalarArg>::encode
encode_Vector(v) == [encode_VectorRef(v) EXCEPT !.op = "Vector"]

VecIdle ==
    /\ vector = Vec(0, <<0, 0>>)
    /\ venc = NoEncoded

VecInit ==
    /\ vector \in Vectors
    /\ venc = NoEncoded

EncodeVectorRef ==
    /\ venc = NoEncoded
    /\ venc' = encode_VectorRef(vector)
    /\ UNCHANGED <<vector, notVec>>

EncodeVector ==
    /\ venc = NoEncoded
    /\ venc' = encode_Vector(vector)
    /\ UNCHANGED <<vector, notVec>>

VecNext == EncodeVectorRef \/ EncodeVector

(***************************************************************************)
(*                        ACCEPTOR (gel-stream)                            *)
(***************************************************************************)

\* Bound of the acceptor model: items the listener produces (sockets and
\* accept errors).
MaxSockets == 3

\* struct Acceptor, by constructor (ignore_missing_tls_close_notify is false
\* in all of them and is left out).
Acceptor(ctor, provider, upgrade) ==
    [ctor |-> ctor, tls_provider |-> provider, should_upgrade |-> upgrade]
Acceptor_new == Acceptor("new", FALSE, FALSE)
Acceptor_new_tls == Acceptor("new_tls", TRUE, TRUE)
Acceptor_new_starttls == Acceptor("new_starttls", TRUE, FALSE)
Acceptor_new_tcp == Acceptor("new_tcp", FALSE, FALSE)
Acceptor_new_tcp_tls == Acceptor("new_tcp_tls", TRUE, TRUE)
Acceptor_new_tcp_starttls == Acceptor("new_tcp_starttls", TRUE, FALSE)
Acceptors ==
    {Acceptor_new, Acceptor_new_tls, Acceptor_new_starttls, Acceptor_new_tcp,
     Acceptor_new_tcp_tls, Acceptor_new_tcp_starttls}

\* Acceptor::bind / bind_explicit: the AcceptedStream over the listener.
bind(a) ==
    [ctor |-> a.ctor, should_upgrade |-> a.should_upgrade,
     tls_provider |-> a.tls_provider, upgrade_future |-> None]

\* The boxed future of secure_upgrade on one socket; state is what its next
\* poll gives ("Pending", "Ok" or "Err").
UpgradeFuture(sock, state) == [sock |-> sock, state |-> state]
PollResults == {"Pending", "Ok", "Err"}

\* What poll_next returns: Poll::Pending, Poll::Ready(Some(item)),
\* Poll::Ready(None).  An item is Ok(connection) or Err(error); sock is the
\* socket it belongs to (0 for an error of accept itself), upgraded is
\* whether the TLS handshake completed on the connection, provider whether
\* the connection holds the TLS parameters for a later upgrade.
StreamItem(sock, kind, upgraded, provider) ==
    [sock |-> sock, kind |-> kind, upgraded |-> upgraded, provider |-> provider]
NoItem == StreamItem(0, "none", FALSE, FALSE)
PollPending == [poll |-> "Pending", item |-> NoItem]
PollReady(item) == [poll |-> "Ready", item |-> item]
PollEnd == [poll |-> "End", item |-> NoItem]
NotPolled == [poll |-> "none", item |-> NoItem]

\* The result of polling an upgrade future, as poll_next matches on it (the
\* same three arms for a stored and for a new future).
poll_upgrade(a, l, f) ==
    CASE f.state = "Ok" ->
            [a |-> a, l |-> l,
             ret |-> PollReady(StreamItem(f.sock, "Ok", TRUE, a.tls_provider))]
      [] f.state = "Err" ->
            [a |-> a, l |-> l,
             ret |-> PollReady(StreamItem(f.sock, "Err", FALSE, FALSE))]
      [] OTHER ->
            [a |-> [a EXCEPT !.upgrade_future = Some(f)], l |-> l,
             ret |-> PollPending]

\* Mutant of poll_next: a stored upgrade that is still pending does not keep
\* the listener from being polled.
poll_next_eager(a, l, first) ==
    IF l.queue = <<>>
    THEN [a |-> a, l |-> l, ret |-> IF l.closed THEN PollEnd ELSE PollPending]
    ELSE LET r == Head(l.queue)
             l1 == [l EXCEPT !.queue = Tail(@)]
         IN  IF r = 0
             THEN [a |-> a, l |-> l1,
                   ret |-> PollReady(StreamItem(0, "Err", FALSE, FALSE))]
             ELSE IF a.should_upgrade
             THEN poll_upgrade(a, l1, UpgradeFuture(r, first))
             ELSE [a |-> a, l |-> l1,
                   ret |-> PollReady(StreamItem(r, "Ok", FALSE, a.tls_provider))]

\* <AcceptedStream as Stream>::poll_next: the stream and the listener
\* afterwards and the value returned.  l.queue is what the listener has
\* ready (socket numbers, 0 for an accept error); first is what the first
\* poll of a new upgrade future gives.
poll_next(a, l, first) ==
    IF is_some(a.upgrade_future)
    THEN poll_upgrade([a EXCEPT !.upgrade_future = None], l,   \* take()
                      unwrap(a.upgrade_future))
    ELSE IF l.queue = <<>>
    THEN [a |-> a, l |-> l, ret |-> IF l.closed THEN PollEnd ELSE PollPending]
    ELSE LET r == Head(l.queue)
             l1 == [l EXCEPT !.queue = Tail(@)]
         IN  IF r = 0                                           \* r?
             THEN [a |-> a, l |-> l1,
                   ret |-> PollReady(StreamItem(0, "Err", FALSE, FALSE))]
             ELSE IF a.should_upgrade
             THEN poll_upgrade(a, l1, UpgradeFuture(r, first))
             ELSE [a |-> a, l |-> l1,
                   ret |-> PollReady(StreamItem(r, "Ok", FALSE, a.tls_provider))]

\* The listener: what it has ready, how many sockets have arrived (sockets
\* are numbered in arrival order), how many items it has produced, and
\* whether it has been closed.
Listener(queue, sockets, items, closed) ==
    [queue |-> queue, sockets |-> sockets, items |-> items, closed |-> closed]

AccIdle ==
    /\ accepted = bind(Acceptor_new)
    /\ listener = Listener(<<>>, 0, 0, FALSE)
    /\ yielded = <<>>
    /\ taken = <<>>
    /\ polled = NotPolled

AccInit ==
    /\ \E a \in Acceptors : accepted = bind(a)
    /\ listener = Listener(<<>>, 0, 0, FALSE)
    /\ yielded = <<>>
    /\ taken = <<>>
    /\ polled = NotPolled

\* A client connects: the listener has one more socket ready.
Incoming ==
    /\ ~listener.closed /\ listener.items < MaxSockets
    /\ listener' = [listener EXCEPT !.queue = Append(@, listener.sockets + 1),
                                    !.sockets = @ + 1, !.items = @ + 1]
    /\ UNCHANGED <<accepted, yielded, taken, polled, notAcc>>

\* accept fails: the listener has an error ready.
AcceptError ==
    /\ ~listener.closed /\ listener.items < MaxSockets
    /\ listener' = [listener EXCEPT !.queue = Append(@, 0), !.items = @ + 1]
    /\ UNCHANGED <<accepted, yielded, taken, polled, notAcc>>

\* The listener stream ends.
ListenerEnd ==
    /\ ~listener.closed
    /\ listener' = [listener EXCEPT !.closed = TRUE]
    /\ UNCHANGED <<accepted, yielded, taken, polled, notAcc>>

\* The handshake of the stored upgrade completes, or fails.
HandshakeProgress ==
    /\ is_some(accepted.upgrade_future)
    /\ unwrap(accepted.upgrade_future).state = "Pending"
    /\ \E st \in {"Ok", "Err"} :
          accepted' = [accepted EXCEPT !.upgrade_future =
                          Some(UpgradeFuture(unwrap(@).sock, st))]
    /\ UNCHANGED <<listener, yielded, taken, polled, notAcc>>

\* The consumer polls the stream.  taken records the sockets that left the
\* listener, yielded the items returned (history).
PollNext ==
    /\ \E first \in PollResults :
          LET r == poll_next(accepted, listener, first)
          IN  /\ accepted' = r.a
              /\ listener' = r.l
              /\ polled' = r.ret
              /\ yielded' = IF r.ret.poll = "Ready"
                            THEN Append(yielded, r.ret.item) ELSE yielded
              /\ taken' = IF Len(r.l.queue) < Len(listener.queue)
                             /\ Head(listener.queue) # 0
                          THEN Append(taken, Head(listener.queue)) ELSE taken
    /\ UNCHANGED notAcc

AccNext == Incoming \/ AcceptError \/ ListenerEnd \/ HandshakeProgress \/ PollNext

(***************************************************************************)
(*                        CLAIMS: TRANSPORT                                *)
(***************************************************************************)

\* C1: for every Unix-socket target (path-based or abstract-name),
\* try_set_tls(params) returns None ("not applied") and leaves the target
\* exactly as it was.  Stated of every try_set_tls step.
C1_UnixTrySetTlsNotApplied ==
    [][(ret'.op = "try_set_tls" /\ is_unix(maybe_resolved(target)))
         => (~ret'.applied /\ target' = target)]_vars

\* C2: after any sequence of constructors, try_set_tls, try_remove_tls and
\* try_set_port, no Target whose endpoint is a Unix socket carries TLS
\* parameters, and every Target that carries TLS parameters has a host.
C2_UnixNeverTls ==
    /\ is_unix(maybe_resolved(target)) => is_none(maybe_ssl(target))
    /\ is_some(maybe_ssl(target)) => is_some(host(maybe_resolved(target)))

\* A step of try_set_tls(p), of try_remove_tls().
SetTlsStep(p) ==
    /\ ret'.op = "try_set_tls"
    /\ target' = try_set_tls(target, p).t
    /\ ret' = Ret("try_set_tls", try_set_tls(target, p).applied,
                  try_set_tls(target, p).old, None)
RemoveTlsStep ==
    /\ ret'.op = "try_remove_tls"
    /\ target' = try_remove_tls(target).t
    /\ ret' = Ret("try_remove_tls", TRUE, try_remove_tls(target).old, None)

\* C26: on a TCP target try_set_tls(p) and try_remove_tls() never change
\* the endpoint (the temporary 0.0.0.0:0 value is never left in place);
\* try_set_tls turns NoTls into Tls returning Some(None), keeps Tls as Tls
\* and StartTls as StartTls returning Some(Some(previous parameters));
\* try_remove_tls always leaves NoTls and returns the previous parameters
\* (None if there were none).  Hence try_remove_tls after try_set_tls(p)
\* returns p, a second try_remove_tls returns None, and try_set_tls after
\* try_remove_tls ends in Tls mode.  Stated of every step of the two
\* operations.
C26_TlsModeTransitions ==
    [][is_tcp(target) =>
        /\ \A p \in TlsParams : (TrySetTls /\ SetTlsStep(p)) =>
              /\ maybe_resolved(target') = maybe_resolved(target)
              /\ ret'.applied
              /\ maybe_ssl(target') = Some(p)
              /\ target'.mode = (IF target.mode = "NoTls" THEN "Tls" ELSE target.mode)
              /\ ret'.old = maybe_ssl(target)
              /\ ret.op = "try_remove_tls" => target'.mode = "Tls"
        /\ (TryRemoveTls /\ RemoveTlsStep) =>
              /\ target' = NoTls(maybe_resolved(target))
              /\ ret'.old = maybe_ssl(target)
              /\ (ret.op = "try_set_tls" /\ ret.applied) => is_some(ret'.old)
              /\ ret.op = "try_remove_tls" => ret'.old = None]_vars

\* A StartTls target of 127.0.0.1:1 after try_remove_tls returned its
\* parameters.
C26_Witness ==
    /\ ret = Ret("try_remove_tls", TRUE, Some(2), None)
    /\ target = NoTls(SocketAddr("127.0.0.1", 1))

\* C3: connect() returns Ok(stream) for a Tls-mode target only with the
\* handshake completed on that stream, and Err with no stream otherwise; for
\* a StartTls-mode target the stream is plain, not upgraded, and retains the
\* TLS parameters; for a NoTls target it is plain and holds no parameters.
C3_ConnectByMode ==
    connRes.op = "connect" =>
        LET t == unwrap(connector).target
        IN  /\ (connRes.res = "Ok") <=> is_some(stream)
            /\ is_some(stream) =>
                 LET stm == unwrap(stream)
                 IN  /\ t.mode = "Tls" =>
                           /\ stm.state = "Upgraded" /\ stm.upgrades = 1
                           /\ stm.ssl = t.params
                     /\ t.mode = "StartTls" =>
                           /\ stm.state = "Base" /\ stm.upgrades = 0
                           /\ stm.ssl = t.params /\ is_some(stm.ssl)
                     /\ t.mode = "NoTls" =>
                           /\ stm.state = "Base" /\ stm.upgrades = 0
                           /\ is_none(stm.ssl)

\* C3 witness: connect() has returned an upgraded stream for a Tls-mode target.
C3_Witness ==
    /\ connRes.op = "connect" /\ connRes.res = "Ok"
    /\ is_some(connector) /\ unwrap(connector).target.mode = "Tls"
    /\ is_some(stream) /\ unwrap(stream).state = "Upgraded"

\* C4: on any one stream secure_upgrade() succeeds at most once and a second
\* call fails with SslAlreadyUpgraded; the first explicit call on a stream
\* connect() returned for a Tls-mode target fails so too, while the first
\* explicit call on a stream returned for a StartTls-mode target is not
\* rejected as already upgraded.
C4_UpgradeAtMostOnce ==
    is_some(stream) =>
        LET stm == unwrap(stream)
            t == unwrap(connector).target
        IN  /\ stm.upgrades <= 1
            /\ connRes.op = "secure_upgrade" =>
                 /\ (stm.explicit >= 2 \/ t.mode = "Tls")
                       => connRes.res = "SslAlreadyUpgraded"
                 /\ (stm.explicit = 1 /\ t.mode = "StartTls")
                       => connRes.res # "SslAlreadyUpgraded"

\* C4 witness: a StartTls stream was upgraded by the first explicit call and
\* the second explicit call was rejected.
C4_Witness ==
    /\ is_some(stream) /\ unwrap(stream).explicit = 2
    /\ unwrap(stream).upgrades = 1
    /\ unwrap(connector).target.mode = "StartTls"
    /\ connRes = [op |-> "secure_upgrade", res |-> "SslAlreadyUpgraded"]

(***************************************************************************)
(*                     CLAIMS: DESCRIPTOR CHECKS                           *)
(***************************************************************************)

\* The descriptor at a position of the block.
DescAt(c, p) == c.descriptors[p + 1]
ValidPos(c, p) == p \in 0..(Len(c.descriptors) - 1)
\* The descriptor at p is a Scalar that has a base type.
Based(c, p) == DescAt(c, p).kind = "Scalar" /\ DescAt(c, p).base_type_pos # <<>>
\* The walks along base_type_pos links that start at pos.
BaseWalks(c, pos) ==
    {w \in UNION {[1..n -> 0..(Len(c.descriptors) - 1)] : n \in 1..Len(c.descriptors)} :
        /\ w[1] = pos
        /\ \A i \in 1..(Len(w) - 1) :
              Based(c, w[i]) /\ DescAt(c, w[i]).base_type_pos = <<w[i + 1]>>}
\* Where following the links from pos ends: at a descriptor with no base type.
WalkEnds(c, pos) ==
    {w[Len(w)] : w \in {v \in BaseWalks(c, pos) : ~Based(c, v[Len(v)])}}
\* The descriptor at e is one check_scalar accepts for type_id.
Accepted(c, e, type_id) ==
    \/ DescAt(c, e).kind = "BaseScalar" /\ DescAt(c, e).id = type_id
    \/ /\ c.proto >= 2
       /\ DescAt(c, e).kind = "Scalar" /\ DescAt(c, e).base_type_pos = <<>>
       /\ DescAt(c, e).id = type_id

\* A call of check_scalar (through a binding that only calls it) has returned.
ScalarCallDone ==
    /\ ~call.active /\ result.kind # "none"
    /\ call.binding \in {"String", "i64"}
    /\ ValidPos(ctx, call.pos)

\* C5: check_scalar(ctx, pos, type_id) accepts exactly when following
\* base_type_pos links from pos ends at a BaseScalar with that id or, on
\* protocol >= 2, at a Scalar without base type with that id; otherwise it
\* fails with a mismatch naming the expected type and the descriptor where
\* the walk ended.  A Scalar with a base type is never accepted on its own id.
C5_CheckScalarFollowsBase ==
    ScalarCallDone =>
        LET tid == IF call.binding = "i64" THEN "std::int64" ELSE "std::str"
            ends == WalkEnds(ctx, call.pos)
        IN  /\ result.kind \in {"Ok", "Mismatch"}
            /\ ends # {}
            /\ (result.kind = "Ok") <=> (\E e \in ends : Accepted(ctx, e, tid))
            /\ result.kind = "Mismatch" =>
                  /\ result.expected = tid
                  /\ \E e \in ends : result.actual = DescAt(ctx, e)
            /\ result.kind = "Ok" => ~Based(ctx, cur)

\* C5 witness: the walk followed a base link away from a Scalar whose own id
\* is the expected one and ended in a mismatch.
C5_Witness ==
    /\ ScalarCallDone /\ call.binding = "String"
    /\ Len(call.path) >= 2
    /\ DescAt(ctx, call.pos).id = "std::str" /\ ctx.proto = 2
    /\ result.kind = "Mismatch"

\* The block is topologically ordered: each Scalar's base_type_pos is
\* strictly smaller than the Scalar's own position.
Ordered(c) ==
    \A i \in 1..Len(c.descriptors) :
        LET d == c.descriptors[i]
        IN  (d.kind = "Scalar" /\ is_some(d.base_type_pos))
               => unwrap(d.base_type_pos) < i - 1

\* A check_scalar call on a position of an ordered block.
OrderedScalarCall ==
    /\ Ordered(ctx) /\ call.binding \in {"String", "i64"}
    /\ ValidPos(ctx, call.pos)

\* C28: check_scalar terminates for every descriptor block and every start
\* position, returning accept or mismatch, provided each Scalar's
\* base_type_pos is strictly smaller than the Scalar's own position; it then
\* resolves at most pos + 1 descriptors.
C28_CheckScalarTerminates ==
    /\ [](OrderedScalarCall => call.resolved <= call.pos + 1)
    /\ (OrderedScalarCall /\ call.active)
          ~> (~call.active /\ result.kind \in {"Ok", "Mismatch"})

\* C28 witness: a call on position 1 of an ordered block returned after
\* resolving both descriptors.
C28_Witness ==
    /\ OrderedScalarCall /\ ~call.active
    /\ call.pos = 1 /\ call.resolved = 2
    /\ result.kind \in {"Ok", "Mismatch"}

\* C6: for every string binding (String, &str) and every enum binding
\* (EnumValue, derived enums), check_descriptor on a position holding an
\* Enumeration descriptor returns Ok, whatever its member list.
C6_EnumerationAccepted ==
    (/\ ~call.active /\ result.kind # "none"
     /\ call.binding \in {"String", "&str", "EnumValue", "DeriveEnum"}
     /\ ValidPos(ctx, call.pos)
     /\ DescAt(ctx, call.pos).kind = "Enumeration")
        => result.kind = "Ok"

\* The wire name of a variant: its rename attribute, otherwise its identifier.
WireName(v) == IF v.rename = <<>> THEN v.ident ELSE v.rename[1]

\* check_descriptor of the derived impl has returned for a position of the block.
DeriveCheckDone ==
    /\ ~call.active /\ result.kind # "none"
    /\ call.binding = "DeriveEnum" /\ ValidPos(ctx, call.pos)

\* The part of C7 about check_descriptor: every Enumeration is accepted and
\* every other descriptor rejected.
DeriveCheckOnlyEnumeration ==
    DeriveCheckDone =>
        /\ (result.kind = "Ok") <=> (DescAt(ctx, call.pos).kind = "Enumeration")
        /\ result.kind \in {"Ok", "Mismatch"}

\* C7 as claimed: decode(buf) returns variant V exactly when buf equals V's
\* wire name; every other byte string fails with ExtraEnumValue.
C7_DecodeExactlyByName ==
    /\ DeriveCheckOnlyEnumeration
    /\ eres.kind # "none" =>
          /\ \A i \in 1..Len(enumdef) :
                (eres = OkVariant(i)) <=> (ebuf = WireName(enumdef[i]))
          /\ (\A i \in 1..Len(enumdef) : ebuf # WireName(enumdef[i]))
                => eres = ExtraEnumValue

\* C7 as amended: decode(buf) returns the first variant in declaration order
\* whose wire name equals buf; a byte string that is no variant's wire name
\* fails with ExtraEnumValue.
C7_DecodeFirstByName ==
    /\ DeriveCheckOnlyEnumeration
    /\ eres.kind # "none" =>
          /\ \A i \in 1..Len(enumdef) :
                (eres = OkVariant(i)) <=>
                    /\ ebuf = WireName(enumdef[i])
                    /\ \A j \in 1..(i - 1) : ebuf # WireName(enumdef[j])
          /\ (\A i \in 1..Len(enumdef) : ebuf # WireName(enumdef[i]))
                <=> eres = ExtraEnumValue

\* C7 witness: check_descriptor accepted the server's Enumeration, and a byte
\* string that is one of its members but no variant's wire name failed to decode.
C7_Witness ==
    /\ DeriveCheckDone /\ result.kind = "Ok"
    /\ \E k \in 1..Len(DescAt(ctx, call.pos).members) :
          DescAt(ctx, call.pos).members[k] = ebuf
    /\ eres = ExtraEnumValue

(***************************************************************************)
(*                     CLAIMS: RAW SCALAR CODECS                           *)
(***************************************************************************)

\* The wire size of each fixed-size scalar.
FixedSize ==
    [T \in {"Uuid", "bool", "i16", "i32", "i64", "f32", "f64", "ConfigMemory",
            "Duration", "RelativeDuration", "DateDuration", "Datetime",
            "LocalDatetime", "LocalTime", "LocalDate"} |->
        CASE T \in {"Uuid", "Duration", "RelativeDuration", "DateDuration"} -> 16
          [] T \in {"i64", "f64", "ConfigMemory", "Datetime", "LocalDatetime",
                    "LocalTime"} -> 8
          [] T \in {"i32", "f32", "LocalDate"} -> 4
          [] T = "i16" -> 2
          [] T = "bool" -> 1]

\* C8: decoding a fixed-size scalar from a buffer shorter than its size fails
\* with Underflow and from a longer buffer fails with ExtraData, whatever the
\* bytes of the buffer are: the size is checked before the value.
C8_SizeCheckedFirst ==
    (cres.kind # "none" /\ cres.type \in DOMAIN FixedSize) =>
        /\ Len(cbuf) < FixedSize[cres.type] => cres.kind = "Underflow"
        /\ Len(cbuf) > FixedSize[cres.type] => cres.kind = "ExtraData"
        /\ cres.kind \in {"Underflow", "ExtraData"}
              => Len(cbuf) # FixedSize[cres.type]

\* C8 witness: a 17-byte duration whose days are not zero fails with ExtraData.
C8_Witness ==
    /\ cres.type = "Duration" /\ cres.kind = "ExtraData"
    /\ Len(cbuf) = 17
    /\ \E i \in 9..12 : cbuf[i] # 0

\* The types whose encoder and decoder are both in raw_scalar.rs.
RoundTripTypes ==
    {"bool", "i16", "i32", "i64", "f32", "f64", "Uuid", "String", "Bytes",
     "Json", "ConfigMemory"}

\* C9: for bool, i16, i32, i64, f32, f64, uuid, string, bytes, json and
\* config-memory, decoding what encode wrote into an empty buffer succeeds
\* and gives the value that was encoded.
C9_RoundTrip ==
    (/\ cval.type \in RoundTripTypes /\ cval.encoded
     /\ cres.kind # "none" /\ cres.type = cval.type)
        => (cres.kind = "Ok" /\ cres.val = cval.v)

\* C9 witness: a json string with a character outside ASCII went through
\* encode and decode.
C9_Witness ==
    /\ cval.type = "Json" /\ cval.encoded
    /\ cres.type = "Json" /\ cres.kind = "Ok"
    /\ \E i \in 1..Len(cval.v) : cval.v[i] > 127

\* What C10 expects for one bound of a non-empty range.
ExpectedBound(b) ==
    IF b = <<>> THEN <<>>
    ELSE <<0, 0, 0, 8>> \o put_i64(b[1])

\* C10: Range::encode writes, for a range with empty = true, the single
\* flags byte 0x01 and no bound, whatever lower and upper hold; for a
\* non-empty range the flags byte is LB_INC if inc_lower, UB_INC if
\* inc_upper, LB_INF if lower is absent, UB_INF if upper is absent, followed
\* by a length-prefixed bound for each side that is present, lower first.
C10_EmptySuppressesBounds ==
    (cval.type = "Range" /\ cval.encoded) =>
        /\ cval.v.empty => cbuf = <<1>>
        /\ ~cval.v.empty =>
              /\ cbuf[1] = (IF cval.v.inc_lower THEN 2 ELSE 0)
                             + (IF cval.v.inc_upper THEN 4 ELSE 0)
                             + (IF cval.v.lower = <<>> THEN 8 ELSE 0)
                             + (IF cval.v.upper = <<>> THEN 16 ELSE 0)
              /\ Tail(cbuf) = ExpectedBound(cval.v.lower) \o ExpectedBound(cval.v.upper)

\* The bytes i..j of a buffer are all zero.
ZeroBytes(buf, i, j) == \A k \in i..j : buf[k] = 0
\* The 64-bit value in the first eight bytes of a buffer, as limbs.
First64(buf) == [k \in 1..4 |-> buf[2 * k - 1] * 256 + buf[2 * k]]
\* The 32-bit value in bytes i..i+3 of a buffer, as limbs.
Field32(buf, i) == <<buf[i] * 256 + buf[i + 1], buf[i + 2] * 256 + buf[i + 3]>>

\* C11: a 16-byte duration whose days or months field is not zero fails with
\* NonZeroReservedBytes (and decodes to its microseconds otherwise); a
\* 16-byte date-duration whose microseconds field is not zero fails with
\* NonZeroReservedBytes; a 16-byte relative-duration decodes for every value
\* of its three fields.
C11_ReservedFieldsZero ==
    (cres.kind # "none" /\ Len(cbuf) = 16) =>
        /\ cres.type = "Duration" =>
              (IF ZeroBytes(cbuf, 9, 12) /\ ZeroBytes(cbuf, 13, 16)
               THEN cres.kind = "Ok" /\ cres.val.micros = First64(cbuf)
               ELSE cres.kind = "NonZeroReservedBytes")
        /\ cres.type = "DateDuration" =>
              (IF ZeroBytes(cbuf, 1, 8)
               THEN /\ cres.kind = "Ok"
                    /\ cres.val.days = Field32(cbuf, 9)
                    /\ cres.val.months = Field32(cbuf, 13)
               ELSE cres.kind = "NonZeroReservedBytes")
        /\ cres.type = "RelativeDuration" =>
              /\ cres.kind = "Ok"
              /\ cres.val.micros = First64(cbuf)
              /\ cres.val.days = Field32(cbuf, 9)
              /\ cres.val.months = Field32(cbuf, 13)

\* C11 witness: a duration whose days are zero and whose months are not.
C11_Witness ==
    /\ cres.type = "Duration" /\ cres.kind = "NonZeroReservedBytes"
    /\ Len(cbuf) = 16
    /\ ZeroBytes(cbuf, 9, 12) /\ ~ZeroBytes(cbuf, 13, 16)

\* The signed 64-bit value of an 8-byte buffer is in [0, 86_400_000_000):
\* 86_400_000_000 is 21_093_750 * 4096, so the value is compared in units
\* of 4096.
InDayRange(buf) ==
    /\ buf[1] = 0 /\ buf[2] = 0 /\ buf[3] = 0
    /\ buf[4] * 1048576 + buf[5] * 4096 + buf[6] * 16 + (buf[7] \div 16) < 21093750

\* C12: an 8-byte local-time decodes exactly when its signed microsecond
\* value is in [0, 86_400_000_000), to the same number; every value outside
\* fails with InvalidDate.
C12_LocalTimeRange ==
    (cres.type = "LocalTime" /\ cres.kind # "none" /\ Len(cbuf) = 8) =>
        IF InDayRange(cbuf)
        THEN cres.kind = "Ok" /\ cres.val.micros = First64(cbuf)
        ELSE cres.kind = "InvalidDate"

\* C12 witness: the last microsecond of the day, 86_399_999_999, decodes.
C12_Witness ==
    /\ cres.type = "LocalTime" /\ cres.kind = "Ok"
    /\ cbuf = <<0, 0, 0, 20, 29, 215, 95, 255>>

\* C13: decimal and big-int decode.  Fewer than 8 bytes: Underflow; a sign
\* other than 0x0000 / 0x4000: BadSign; for big-int a non-zero dscale:
\* NonZeroReservedBytes; a payload shorter than ndigits * 2: Underflow, a
\* longer one: ExtraData; otherwise the value has negative = (sign = 0x4000),
\* the weight (and dscale for decimal) and the ndigits digits in wire order.
C13_DecimalDecode ==
    (cres.type \in {"Decimal", "BigInt"} /\ cres.kind # "none") =>
        LET ndigits == cbuf[1] * 256 + cbuf[2]
            weight == cbuf[3] * 256 + cbuf[4]
            sign == cbuf[5] * 256 + cbuf[6]
            dscale == cbuf[7] * 256 + cbuf[8]
        IN  IF Len(cbuf) < 8 THEN cres.kind = "Underflow"
            ELSE IF sign # 0 /\ sign # 16384 THEN cres.kind = "BadSign"
            ELSE IF cres.type = "BigInt" /\ dscale # 0
            THEN cres.kind = "NonZeroReservedBytes"
            ELSE IF Len(cbuf) - 8 < ndigits * 2 THEN cres.kind = "Underflow"
            ELSE IF Len(cbuf) - 8 > ndigits * 2 THEN cres.kind = "ExtraData"
            ELSE /\ cres.kind = "Ok"
                 /\ cres.val.negative = (sign = 16384)
                 /\ cres.val.weight = (IF weight >= 32768 THEN weight - 65536 ELSE weight)
                 /\ cres.type = "Decimal" => cres.val.decimal_digits = dscale
                 /\ Len(cres.val.digits) = ndigits
                 /\ \A i \in 1..ndigits :
                       cres.val.digits[i] = cbuf[7 + 2 * i] * 256 + cbuf[8 + 2 * i]

\* C13 witness: a negative big-int of two digits was decoded.
C13_Witness ==
    /\ cres.type = "BigInt" /\ cres.kind = "Ok"
    /\ cres.val.negative /\ Len(cres.val.digits) = 2
    /\ cres.val.digits[1] # cres.val.digits[2]

\* C14: json decode.  An empty buffer fails with Underflow, a first byte
\* other than 0x01 with InvalidJsonFormat; otherwise the remaining bytes
\* (possibly none) are the text, which must be valid UTF-8 or decoding fails
\* with InvalidUtf8.
C14_JsonDecode ==
    (cres.type = "Json" /\ cres.kind # "none") =>
        IF cbuf = <<>> THEN cres.kind = "Underflow"
        ELSE IF cbuf[1] # 1 THEN cres.kind = "InvalidJsonFormat"
        ELSE IF from_utf8(Tail(cbuf)) = <<>> THEN cres.kind = "InvalidUtf8"
        ELSE cres.kind = "Ok" /\ as_bytes(cres.val) = Tail(cbuf)

\* C14 witness: the format byte alone decodes to the empty text.
C14_Witness ==
    /\ cres.type = "Json" /\ cres.kind = "Ok"
    /\ cbuf = <<1>> /\ cres.val = <<>>

(***************************************************************************)
(*                       CLAIMS: MESSAGE FRAMING                           *)
(***************************************************************************)

\* The bytes the first k messages of the stream take: 1 + 4 + payload each.
RECURSIVE BytesOf(_, _)
BytesOf(ms, k) == IF k = 0 THEN 0 ELSE BytesOf(ms, k - 1) + 5 + Len(ms[k].data)

\* The mlen of the header that starts at offset p, when it is below 2^16.
HeaderLen(bytes, p) == bytes[p + 4] * 256 + bytes[p + 5]
SmallLen(bytes, p) == bytes[p + 2] = 0 /\ bytes[p + 3] = 0

\* C15: a read either fails or consumes exactly mlen + 1 bytes (tag, length,
\* mlen - 4 bytes of payload); a header whose mlen is below 4 fails with
\* MessageTooShort; an unknown tag is reported as UnexpectedMessage only
\* after its mlen + 1 bytes are consumed, so that the k-th read starts at
\* the tag of the k-th message written, known or unknown.
C15_ReadConsumesWholeMessage ==
    fres.kind # "none" =>
        /\ fres.kind \in {"Message", "UnexpectedMessage"} =>
              /\ fcount <= Len(wire.msgs)
              /\ fres.start = BytesOf(wire.msgs, fcount - 1)
              /\ fpos = BytesOf(wire.msgs, fcount)
              /\ SmallLen(wire.bytes, fres.start)
              /\ HeaderLen(wire.bytes, fres.start) >= 4
              /\ fpos - fres.start = HeaderLen(wire.bytes, fres.start) + 1
              /\ fres.mtype = wire.msgs[fcount].mtype
              /\ fres.data = wire.msgs[fcount].data
              /\ (fres.kind = "UnexpectedMessage")
                    <=> ~(wire.msgs[fcount].mtype \in EdgeDBBackend)
        /\ (/\ Len(wire.bytes) - fres.start >= 5
            /\ SmallLen(wire.bytes, fres.start)
            /\ HeaderLen(wire.bytes, fres.start) < 4)
              <=> fres.kind = "MessageTooShort"

\* C15 witness: after a message with an unknown tag and a payload, the
\* second read returned the second message, a known one.
C15_Witness ==
    /\ fcount = 2 /\ fres.kind = "Message"
    /\ ~(wire.msgs[1].mtype \in EdgeDBBackend) /\ wire.msgs[1].data # <<>>
    /\ fres.mtype = wire.msgs[2].mtype

(***************************************************************************)
(*                   CLAIMS: PROTOCOL STATE MACHINE                        *)
(***************************************************************************)

\* C16: when an ErrorResponse arrives during a pipeline the client sends
\* Sync; every message that arrives after it and before the next
\* ReadyForCommand is discarded without effect on the caller; that
\* ReadyForCommand sets the tracked transaction state and returns the
\* connection to Idle (where a new parse is accepted).  Stated of every
\* step that takes a message off the stream.
C16_ErrorRecovery ==
    [][(inbox # <<>> /\ inbox' = Tail(inbox)) =>
          /\ (conn.state = "Busy" /\ Head(inbox).mtype = "ErrorResponse") =>
                /\ conn'.state = "Recovering"
                /\ conn'.sent = Append(conn.sent, "Sync")
          /\ (conn.state = "Recovering" /\ Head(inbox).mtype # "ReadyForCommand") =>
                /\ conn'.state = "Recovering"
                /\ conn'.delivered = conn.delivered
                /\ conn'.sent = conn.sent
                /\ conn'.txn = conn.txn
          /\ (conn.state = "Recovering" /\ Head(inbox).mtype = "ReadyForCommand") =>
                /\ conn'.state = "Idle"
                /\ conn'.txn = Head(inbox).transaction_state
                /\ conn'.delivered = conn.delivered
                /\ conn'.sent = conn.sent
          /\ conn'.state = "Recovering" =>
                (conn.state = "Recovering" \/ Head(inbox).mtype = "ErrorResponse")
      ]_vars

\* C16 witness: after an error, messages were discarded, the ReadyForCommand
\* brought a transaction state, and a new parse was accepted.
C16_Witness ==
    /\ conn.sent = <<"Parse", "Sync", "Parse">>
    /\ conn.discarded >= 1
    /\ conn.delivered = <<"ErrorResponse">>
    /\ conn.txn = 69

(***************************************************************************)
(*                    CLAIMS: CLIENT CONFIGURATION                         *)
(***************************************************************************)

\* C20: Config::to_tls() maps Insecure to Insecure, NoHostVerification to
\* IgnoreHostname, Strict to VerifyFull, and Default to VerifyFull unless
\* tls_ca holds a pinned certificate, in which case Default maps to
\* IgnoreHostname.
C20_ToTlsVerifyMode ==
    is_some(tlsout) =>
        unwrap(tlsout).server_cert_verify =
            CASE config.tls_security = "Insecure" -> "Insecure"
              [] config.tls_security = "NoHostVerification" -> "IgnoreHostname"
              [] config.tls_security = "Strict" -> "VerifyFull"
              [] config.tls_security = "Default" ->
                    IF is_some(config.tls_ca) THEN "IgnoreHostname" ELSE "VerifyFull"

\* The SNI of the last to_tls call.
Sni == unwrap(tlsout).sni_override

\* The characters of a sequence.
Range(q) == {q[i] : i \in 1..Len(q)}

\* C21: to_tls() sets the SNI to tls_server_name when there is one;
\* otherwise, for a literal IP, to "<ip>.host-for-ip.edgedb.net" with ':'
\* and '%' replaced by '-' and an 'i' in front when that begins with '-'
\* ("::1" gives "i--1.host-for-ip.edgedb.net"); otherwise to the host name
\* unchanged; a Unix-socket host gets none.  An SNI derived from an IP holds
\* no ':' or '%' and does not begin with '-'.
C21_SniOverride ==
    is_some(tlsout) =>
        IF is_some(config.tls_server_name) THEN Sni = config.tls_server_name
        ELSE IF is_none(config.host) THEN Sni = None
        ELSE IF ~unwrap(config.host).is_ip THEN Sni = Some(unwrap(config.host).chars)
        ELSE LET ip == unwrap(config.host).chars
                 sni == unwrap(Sni)
                 n == Len(ip)
                 body == IF ip[1] \in {":", "%"} THEN Tail(sni) ELSE sni
             IN  /\ is_some(Sni)
                 /\ Range(sni) \cap {":", "%"} = {}
                 /\ sni[1] # "-"
                 /\ (ip[1] \in {":", "%"}) => sni[1] = "i"
                 /\ Len(body) = n + 1
                 /\ body[n + 1] = ".host-for-ip.edgedb.net"
                 /\ \A k \in 1..n :
                        body[k] = IF ip[k] \in {":", "%"} THEN "-" ELSE ip[k]
                 /\ (ip = <<":", ":", "1">>) =>
                        sni = <<"i", "-", "-", "1", ".host-for-ip.edgedb.net">>

\* C21 witness: to_tls was called for host "::1" without a server name and
\* the SNI is "i--1.host-for-ip.edgedb.net".
C21_Witness ==
    /\ is_some(tlsout) /\ is_none(config.tls_server_name)
    /\ config.host = Some(HostFor(<<":", ":", "1">>, TRUE))
    /\ Sni = Some(<<"i", "-", "-", "1", ".host-for-ip.edgedb.net">>)

\* C22: for the host 127.0.0.1 and no tls_server_name the SNI is
\* "127-0-0-1.host-for-ip.edgedb.net", the dots of the address written as
\* dashes.
C22_Ipv4SniDashes ==
    (/\ is_some(tlsout) /\ is_none(config.tls_server_name)
     /\ config.host = Some(HostFor(<<"1", "2", "7", ".", "0", ".", "0", ".", "1">>, TRUE))) =>
        Sni = Some(<<"1", "2", "7", "-", "0", "-", "0", "-", "1", ".host-for-ip.edgedb.net">>)

\* C24: for DatabaseBranch::Ambiguous(name) the selector is resolved from
\* the negotiated protocol version: on protocol >= 2 name is sent as the
\* branch, otherwise as the database; database() and branch_for_connect()
\* both return name for Ambiguous, and "edgedb" and "__default__" for
\* Default.
C24_AmbiguousSelector ==
    /\ config.db.tag = "Ambiguous" =>
          /\ database(config.db) = Some(config.db.name)
          /\ branch_for_connect(config.db) = Some(config.db.name)
    /\ config.db.tag = "Default" =>
          /\ database(config.db) = Some("edgedb")
          /\ branch_for_connect(config.db) = Some("__default__")
    /\ (cfgout.op = "connect" /\ config.db.tag = "Ambiguous") =>
          cfgout.sent = [key |-> IF cfgout.proto >= 2 THEN "branch" ELSE "database",
                         value |-> config.db.name]
    /\ (cfgout.op = "connect" /\ config.db.tag = "Default") =>
          cfgout.sent = IF cfgout.proto >= 2
                        THEN [key |-> "branch", value |-> "__default__"]
                        ELSE [key |-> "database", value |-> "edgedb"]

\* C24 witness: an Ambiguous selector was sent as the branch on protocol 2.
C24_Witness ==
    /\ cfgout.op = "connect" /\ cfgout.proto = 2
    /\ config.db = DatabaseBranch("Ambiguous", "main")
    /\ cfgout.sent = [key |-> "branch", value |-> "main"]

\* The fields of a Config that a DSN can represent.
DsnFields ==
    {"host", "port", "user", "authentication", "db", "tls_security",
     "tls_server_name", "wait_until_available", "server_settings"}

\* The URL of the last dsn_url call.
TheUrl == unwrap(cfgout.url)
InQuery(key) == is_some(query_get(TheUrl.query, key))

\* C25: for every Config with a TCP host, parsing dsn_url() gives a Config
\* equal to the original in host, port, user, password, secret key,
\* selector, tls_security, tls_server_name, wait_until_available and server
\* settings; the port is omitted from the URL when it is 5656; for localhost
\* the host is omitted and a non-default port, user and password are query
\* parameters; for a Unix-socket host dsn_url() returns None.
C25_DsnRoundTrip ==
    cfgout.op = "dsn_url" =>
        IF is_none(config.host) THEN cfgout.url = None
        ELSE /\ is_some(cfgout.url)
             /\ \A f \in DsnFields : parse_dsn(TheUrl)[f] = config[f]
             /\ config.port = DEFAULT_PORT => (is_none(TheUrl.port) /\ ~InQuery("port"))
             /\ config.host = Some(LOCALHOST) =>
                    /\ is_none(TheUrl.host) /\ is_none(TheUrl.port)
                    /\ is_none(TheUrl.username) /\ is_none(TheUrl.password)
                    /\ config.port # DEFAULT_PORT => InQuery("port")
                    /\ config.user # DEFAULT_USER => InQuery("user")
                    /\ config.authentication.tag = "Password" => InQuery("password")

\* C30: as_credentials() returns a tagged result for every Config built
\* from Config::default() with the with_ operations: Err(NoTcpAddress) when
\* the host is not a TCP address, otherwise Ok with the fields copied from
\* the Config; it never aborts, port 0 included, and the port of every
\* returned value is non-zero.
C30_AsCredentialsTagged ==
    cfgout.op = "as_credentials" =>
        IF is_none(config.host) THEN cfgout.res.kind = "NoTcpAddress"
        ELSE /\ cfgout.res.kind = "Ok"
             /\ LET cr == unwrap(cfgout.res.creds)
                IN  /\ cr.host = Some(unwrap(config.host).chars)
                    /\ cr.port = Some(config.port) /\ config.port # 0
                    /\ cr.user = Some(config.user)
                    /\ cr.password = password(config.authentication)
                    /\ cr.secret_key = secret_key(config.authentication)
                    /\ cr.database = database(config.db)
                    /\ cr.branch = branch_for_connect(config.db)
                    /\ cr.tls_ca = (IF is_some(config.tls_ca)
                                    THEN Some(to_pem(unwrap(config.tls_ca))) ELSE None)
                    /\ cr.tls_security = config.tls_security
                    /\ cr.tls_server_name = config.tls_server_name

(***************************************************************************)
(*                           CLAIMS: ACCEPTOR                              *)
(***************************************************************************)

\* The sockets of the items yielded, in order (accept errors have none).
RECURSIVE YieldedSockets(_)
YieldedSockets(ys) ==
    IF ys = <<>> THEN <<>>
    ELSE IF Head(ys).sock = 0 THEN YieldedSockets(Tail(ys))
    ELSE <<Head(ys).sock>> \o YieldedSockets(Tail(ys))

\* The socket of the pending upgrade, if there is one.
PendingSockets ==
    IF is_some(accepted.upgrade_future)
    THEN <<unwrap(accepted.upgrade_future).sock>> ELSE <<>>

\* An upgrade is stored and its handshake has neither completed nor failed.
UpgradePending ==
    /\ is_some(accepted.upgrade_future)
    /\ unwrap(accepted.upgrade_future).state = "Pending"

\* C27: in the stream returned by bind() / bind_explicit(), under any
\* interleaving of polls, incoming sockets and handshake progress, every
\* socket taken from the listener is accounted for exactly once (yielded as
\* Ok, yielded as Err, or held as the single pending upgrade), and
\* connections are yielded in the order they were accepted; while an upgrade
\* is pending poll_next returns Pending without taking another socket and
\* keeps that upgrade; for new_tls / new_tcp_tls a connection is yielded as Ok
\* only after its TLS upgrade completed, and a failed upgrade yields Err for
\* that connection without ending the stream; for new_starttls and non-TLS
\* acceptors the connection is yielded without any upgrade.
C27_AcceptedStreamAccounting ==
    /\ [](/\ taken = YieldedSockets(yielded) \o PendingSockets
          /\ \A i \in 1..Len(taken) : taken[i] = i
          /\ accepted.ctor \in {"new_tls", "new_tcp_tls"} =>
                \A i \in 1..Len(yielded) :
                    yielded[i].kind = "Ok" => yielded[i].upgraded
          /\ accepted.ctor \notin {"new_tls", "new_tcp_tls"} =>
                /\ accepted.upgrade_future = None
                /\ \A i \in 1..Len(yielded) :
                      yielded[i].sock # 0 =>
                          (yielded[i].kind = "Ok" /\ ~yielded[i].upgraded))
    /\ [][PollNext =>
            /\ UpgradePending =>
                  /\ polled' = PollPending
                  /\ UNCHANGED <<accepted, listener, yielded, taken>>
            /\ (is_some(accepted.upgrade_future) /\ ~UpgradePending) =>
                  LET f == unwrap(accepted.upgrade_future)
                  IN  /\ polled'.poll = "Ready"
                      /\ polled'.item.sock = f.sock
                      /\ polled'.item.kind = f.state
                      /\ accepted'.upgrade_future = None
                      /\ UNCHANGED <<listener, taken>>]_vars

\* C27 witness: a TLS acceptor yielded Err for the first connection, whose
\* upgrade failed, and then Ok for the second, whose upgrade completed.
C27_Witness ==
    /\ accepted.ctor = "new_tcp_tls"
    /\ Len(yielded) = 2
    /\ yielded[1] = StreamItem(1, "Err", FALSE, FALSE)
    /\ yielded[2] = StreamItem(2, "Ok", TRUE, TRUE)
    /\ taken = <<1, 2>>

(***************************************************************************)
(*                       CLAIMS: VECTOR ARGUMENTS                          *)
(***************************************************************************)

\* C29: for every vector, including one with more than 65535 elements, the
\* unsigned 16-bit length field written by Vector / VectorRef encode equals
\* the number of 32-bit elements written after the 4-byte header, and the
\* reserved field is 0; the length is not reduced modulo 2^16.
C29_VectorLengthField ==
    venc.op # "none" =>
        /\ Len(venc.header) = 4
        /\ get_u16(venc.header, 1) = venc.words
        /\ get_u16(venc.header, 3) = 0
        /\ venc.words = vector.len

(***************************************************************************)
(*                       CLAIMS: TLS CONNECTIONS                           *)
(***************************************************************************)

\* The target carries TLS parameters and the server speaks TLS.
TlsToTlsServer == tls.server_tls /\ is_some(maybe_ssl(tls.connector.target))

\* connect has returned, and a failure was classified.
Decided ==
    \/ tls.phase \in {"connected", "closed", "read"}
    \/ tls.phase = "classified" /\ tls.origin = "handshake"

\* Ok, or the common error of the failure.
Outcome == IF tls.phase = "classified" THEN tls.common ELSE Some("Ok")

\* The chain is anchored and the certificate is neither revoked nor expired.
Trusted == tls.cert.anchored /\ ~tls.cert.revoked /\ ~tls.cert.expired

\* C17: connect() to a TLS server is decided by the verify mode: VerifyFull
\* fails with InvalidIssuer when the chain is not anchored and with
\* InvalidCertificateForName when the chain is trusted but the certificate
\* is not valid for the name; IgnoreHostname succeeds whenever the chain is
\* trusted; Insecure succeeds; a certificate in a configured CRL (with
\* nothing else wrong, and a mode that verifies the chain) fails with
\* CertificateRevoked.  Neither driver appears in the statement.
C17_OutcomeByVerifyMode ==
    (TlsToTlsServer /\ Decided) =>
        /\ (tls.verify = "VerifyFull" /\ ~tls.cert.anchored) =>
                Outcome = Some("InvalidIssuer")
        /\ (tls.verify = "VerifyFull" /\ Trusted /\ ~tls.cert.valid_for_name) =>
                Outcome = Some("InvalidCertificateForName")
        /\ (tls.verify = "VerifyFull" /\ Trusted /\ tls.cert.valid_for_name) =>
                Outcome = Some("Ok")
        /\ (tls.verify = "IgnoreHostname" /\ Trusted) => Outcome = Some("Ok")
        /\ tls.verify = "Insecure" => Outcome = Some("Ok")
        /\ (/\ tls.verify # "Insecure"
            /\ tls.cert.anchored /\ tls.cert.revoked /\ ~tls.cert.expired
            /\ (tls.cert.valid_for_name \/ tls.verify = "IgnoreHostname")) =>
                Outcome = Some("CertificateRevoked")

\* C17 witness: an OpenSSL client against a rustls server, VerifyFull, a
\* trusted chain for another name: the failure is InvalidCertificateForName.
C17_Witness ==
    /\ TlsToTlsServer /\ Decided
    /\ tls.client = "Openssl" /\ tls.server = "Rustls"
    /\ tls.verify = "VerifyFull" /\ Trusted /\ ~tls.cert.valid_for_name
    /\ tls.common = Some("InvalidCertificateForName")

\* C18: when the peer closes a TLS connection without close_notify, a read
\* on a stream of a Connector on which ignore_missing_tls_close_notify() was
\* called returns clean end of file, and without the opt-in it fails with
\* UnexpectedEof; the opt-in reaches the stream before the handshake and
\* only when the stream carries TLS parameters.
C18_MissingCloseNotify ==
    /\ (/\ tls.phase = "read"
        /\ unwrap(tls.stm).state = "Upgraded"
        /\ ~tls.close_notify) =>
            tls.read = IF tls.connector.ignore_missing_close_notify
                       THEN "Eof" ELSE "UnexpectedEof"
    /\ is_some(tls.stm) =>
            (unwrap(tls.stm).ignore_cn <=>
                (tls.connector.ignore_missing_close_notify
                    /\ is_some(unwrap(tls.stm).ssl)))

\* The errors of either backend by what they report.
NameMismatch(e) ==
    \/ e.variant = "RustlsError" /\ e.kind = "InvalidCertificate"
         /\ e.detail \in {"NotValidForName", "NotValidForNameContext"}
    \/ e.variant = "OpenSslErrorVerify"
         /\ e.detail \in {"X509_V_ERR_HOSTNAME_MISMATCH", "X509_V_ERR_IP_ADDRESS_MISMATCH"}
Revoked(e) ==
    \/ e.variant = "RustlsError" /\ e.kind = "InvalidCertificate" /\ e.detail = "Revoked"
    \/ e.variant = "OpenSslErrorVerify" /\ e.detail = "X509_V_ERR_CERT_REVOKED"
Expired(e) ==
    \/ e.variant = "RustlsError" /\ e.kind = "InvalidCertificate" /\ e.detail = "Expired"
    \/ e.variant = "OpenSslErrorVerify" /\ e.detail = "X509_V_ERR_CERT_HAS_EXPIRED"
UnknownIssuer(e) ==
    \/ e.variant = "RustlsError" /\ e.kind = "InvalidCertificate"
         /\ e.detail = "UnknownIssuer"
    \/ e.variant = "OpenSslErrorVerify"
         /\ e.detail \in {"X509_V_ERR_UNABLE_TO_GET_ISSUER_CERT",
                          "X509_V_ERR_UNABLE_TO_GET_ISSUER_CERT_LOCALLY"}
NotTlsData(e) ==
    \/ e.variant = "RustlsError" /\ e.kind = "InvalidMessage"
    \/ /\ \/ e.variant = "OpenSslErrorStack"
          \/ e.variant = "OpenSslError" /\ e.kind = "SSL_ERROR_SSL"
       /\ e.first \in {Some(SSL_R_WRONG_VERSION_NUMBER), Some(SSL_R_PACKET_LENGTH_TOO_LONG)}

\* C19: common_error() maps a name mismatch, a revoked certificate, an
\* expired certificate, an unknown issuer and non-TLS or malformed protocol
\* data to InvalidCertificateForName, CertificateRevoked, CertificateExpired,
\* InvalidIssuer and InvalidTlsProtocolData, whichever backend reported it,
\* and every other SslError to None; a client of either backend connecting
\* to a server that speaks no TLS fails with InvalidTlsProtocolData.
C19_CommonErrorByCause ==
    tls.phase = "classified" =>
        /\ NameMismatch(tls.err) <=> tls.common = Some("InvalidCertificateForName")
        /\ Revoked(tls.err) <=> tls.common = Some("CertificateRevoked")
        /\ Expired(tls.err) <=> tls.common = Some("CertificateExpired")
        /\ UnknownIssuer(tls.err) <=> tls.common = Some("InvalidIssuer")
        /\ NotTlsData(tls.err) <=> tls.common = Some("InvalidTlsProtocolData")
        /\ tls.common \in {None, Some("InvalidCertificateForName"),
                           Some("CertificateRevoked"), Some("CertificateExpired"),
                           Some("InvalidIssuer"), Some("InvalidTlsProtocolData")}
        /\ (tls.origin = "handshake" /\ ~tls.server_tls) =>
                tls.common = Some("InvalidTlsProtocolData")

\* C19 witness: an OpenSSL client met a server that speaks no TLS, and the
\* failure was classified as InvalidTlsProtocolData.
C19_Witness ==
    /\ tls.phase = "classified" /\ tls.origin = "handshake"
    /\ tls.client = "Openssl" /\ ~tls.server_tls
    /\ tls.err.variant = "OpenSslError"
    /\ tls.common = Some("InvalidTlsProtocolData")

(***************************************************************************)
(*                    CLAIMS: CONNECTION OPTIONS                           *)
(***************************************************************************)

Both(a, b) == is_some(options[a]) /\ is_some(options[b])

\* The member of a pair that is set, as the Param it becomes.
Single(unparsed, file) ==
    IF is_some(options[unparsed]) THEN [kind |-> "Unparsed", v |-> unwrap(options[unparsed])]
    ELSE IF is_some(options[file]) THEN [kind |-> "File", v |-> unwrap(options[file])]
    ELSE Param_None

\* C23: the conversion of ConnectionOptions into Params fails whenever both
\* members of an exclusive pair are set and succeeds otherwise: credentials
\* with credentials_file gives MultipleCompound, tls_ca with tls_ca_file
\* ExclusiveOptions("tls_ca", "tls_ca_file"), branch with database
\* ExclusiveOptions("branch", "database"), the first in that order when
\* several conflict; on success credentials, tls_ca, database and branch of
\* the result come from the single member that was set.
C23_ExclusiveOptions ==
    optres.kind # "none" =>
        IF Both("credentials", "credentials_file")
        THEN optres.kind = "MultipleCompound"
        ELSE IF Both("tls_ca", "tls_ca_file")
        THEN optres.kind = "ExclusiveOptions" /\ optres.args = <<"tls_ca", "tls_ca_file">>
        ELSE IF Both("branch", "database")
        THEN optres.kind = "ExclusiveOptions" /\ optres.args = <<"branch", "database">>
        ELSE /\ optres.kind = "Ok"
             /\ LET q == unwrap(optres.params)
                IN  /\ q.credentials = Single("credentials", "credentials_file")
                    /\ q.tls_ca = Single("tls_ca", "tls_ca_file")
                    /\ q.database = Param_from_unparsed(options.database)
                    /\ q.branch = Param_from_unparsed(options.branch)

\* C23 witness: tls_ca / tls_ca_file and branch / database both conflict and
\* the error names tls_ca.
C23_Witness ==
    /\ Both("tls_ca", "tls_ca_file") /\ Both("branch", "database")
    /\ ~Both("credentials", "credentials_file")
    /\ optres.kind = "ExclusiveOptions" /\ optres.args = <<"tls_ca", "tls_ca_file">>

(***************************************************************************)
(*                           SPECIFICATIONS                                *)
(***************************************************************************)

InitTransport == TransportInit /\ DescIdle /\ EnumIdle /\ CodecIdle /\ FrameIdle /\ ConnIdle /\ CfgIdle /\ TlsIdle /\ OptsIdle /\ DsnIdle /\ VecIdle /\ AccIdle
SpecTransport == InitTransport /\ [][TransportNext]_vars

InitDesc == DescInit /\ TransportIdle /\ EnumIdle /\ CodecIdle /\ FrameIdle /\ ConnIdle /\ CfgIdle /\ TlsIdle /\ OptsIdle /\ DsnIdle /\ VecIdle /\ AccIdle
SpecDesc == InitDesc /\ [][DescNext]_vars
\* check_scalar is a synchronous recursion: a pending activation runs.
SpecDescFair == InitDesc /\ [][DescNext]_vars /\ WF_vars(CheckScalar)

InitEnum == EnumInit /\ TransportIdle /\ CodecIdle /\ FrameIdle /\ ConnIdle /\ CfgIdle /\ TlsIdle /\ OptsIdle /\ DsnIdle /\ VecIdle /\ AccIdle
SpecEnum == InitEnum /\ [][EnumNext]_vars

InitCodec == CodecInit /\ TransportIdle /\ DescIdle /\ EnumIdle /\ FrameIdle /\ ConnIdle /\ CfgIdle /\ TlsIdle /\ OptsIdle /\ DsnIdle /\ VecIdle /\ AccIdle
SpecCodec == InitCodec /\ [][CodecNext]_vars

InitFrame == FrameInit /\ TransportIdle /\ DescIdle /\ EnumIdle /\ CodecIdle /\ ConnIdle /\ CfgIdle /\ TlsIdle /\ OptsIdle /\ DsnIdle /\ VecIdle /\ AccIdle
SpecFrame == InitFrame /\ [][FrameNext]_vars

InitConn == ConnInit /\ TransportIdle /\ DescIdle /\ EnumIdle /\ CodecIdle /\ FrameIdle /\ CfgIdle /\ TlsIdle /\ OptsIdle /\ DsnIdle /\ VecIdle /\ AccIdle
SpecConn == InitConn /\ [][ConnNext]_vars

InitCfg ==
    CfgInit /\ TransportIdle /\ DescIdle /\ EnumIdle /\ CodecIdle /\ FrameIdle /\ ConnIdle
      /\ TlsIdle /\ OptsIdle /\ DsnIdle /\ VecIdle /\ AccIdle
SpecCfg == InitCfg /\ [][CfgNext]_vars

InitTls ==
    TlsInit /\ TransportIdle /\ DescIdle /\ EnumIdle /\ CodecIdle /\ FrameIdle /\ ConnIdle
      /\ CfgIdle /\ OptsIdle /\ DsnIdle /\ VecIdle /\ AccIdle
SpecTls == InitTls /\ [][TlsNext]_vars

InitOpts ==
    OptsInit /\ TransportIdle /\ DescIdle /\ EnumIdle /\ CodecIdle /\ FrameIdle /\ ConnIdle /\ CfgIdle /\ TlsIdle /\ DsnIdle /\ VecIdle /\ AccIdle
SpecOpts == InitOpts /\ [][OptsNext]_vars

InitDsn ==
    DsnInit /\ TransportIdle /\ DescIdle /\ EnumIdle /\ CodecIdle /\ FrameIdle /\ ConnIdle /\ TlsIdle /\ OptsIdle /\ VecIdle /\ AccIdle
SpecDsn == InitDsn /\ [][DsnNext]_vars

InitVec ==
    VecInit /\ TransportIdle /\ DescIdle /\ EnumIdle /\ CodecIdle /\ FrameIdle /\ ConnIdle /\ CfgIdle /\ TlsIdle /\ OptsIdle /\ DsnIdle /\ AccIdle
SpecVec == InitVec /\ [][VecNext]_vars

InitAcc ==
    AccInit /\ TransportIdle /\ DescIdle /\ EnumIdle /\ CodecIdle /\ FrameIdle /\ ConnIdle /\ CfgIdle /\ TlsIdle /\ OptsIdle /\ DsnIdle /\ VecIdle
SpecAcc == InitAcc /\ [][AccNext]_vars

====
